---- MODULE Spec2Model ----
(***************************************************************************)
(* A model of app.py of watchlist-plex-sync: the list fetchers, the TMDB   *)
(* identity resolver, the streaming availability checker, the Plex         *)
(* watchlist client and the sync orchestrator (sync_watchlist).            *)
(*                                                                         *)
(* Conventions.  Python's None is the value None below for identifiers    *)
(* (strings are sequences of characters so that startswith, regular        *)
(* expressions and substring tests are computed), 0 for numeric ids and    *)
(* "" for the media type: each is falsy in Python as in the model.  An     *)
(* HTTP status of 0 stands for a request that raised (timeout, connection  *)
(* error).  A function of the program is an operator returning a record    *)
(* of its return value, the outbound requests it issued (reqs), the log    *)
(* entries it added (logs) and whether an exception left it (raised).      *)
(* Only warning, error and success log entries are modelled; info-level    *)
(* progress messages are left out.                                         *)
(***************************************************************************)
EXTENDS Integers, Sequences, FiniteSets, TLC

VARIABLES
  pc,            \* position of the run in sync_watchlist
  config,        \* the configuration load_config returned
  items,         \* the list the fetcher returned
  processed,     \* loop counters of sync_watchlist
  added,
  skipped,
  removed,
  results,       \* the result list of the run
  last,          \* the latest iteration: what the availability check said, what was attempted
  fetchRequests, \* outbound requests of the fetch, in order
  itemRequests,  \* outbound requests and pause of the latest iteration, in order
  logs,          \* LOGS_FILE
  resultsFile,   \* RESULTS_FILE
  statsFile,     \* STATS_FILE
  call,          \* the arguments and the answers of a function called on its own
  ret            \* what that function returned

vars == <<pc, config, items, processed, added, skipped, removed, results, last,
          fetchRequests, itemRequests, logs, resultsFile, statsFile, call, ret>>

----------------------------------------------------------------------------
(* Values *)

None == <<"None">>
TT1 == <<"t", "t", "1">>
TT2 == <<"t", "t", "2">>
Digits == {"0", "1", "2"}

\* Python truthiness of an identifier string
Truthy(s) == s # None /\ s # <<>>

\* s.startswith('tt')
StartsWithTT(s) == Len(s) >= 2 /\ s[1] = "t" /\ s[2] = "t"

\* re.fullmatch(r'tt\d+', s)
MatchesTTDigits(s) ==
  /\ s # None
  /\ Len(s) >= 3
  /\ s[1] = "t" /\ s[2] = "t"
  /\ \A i \in 3..Len(s) : s[i] \in Digits

\* Python's  a in b  for strings
IsSubstring(a, b) ==
  \E i \in 0..(Len(b) - Len(a)) : \A j \in 1..Len(a) : b[i + j] = a[j]

SeqToSet(s) == {s[i] : i \in 1..Len(s)}

Entry(type, message) == [type |-> type, message |-> message]

----------------------------------------------------------------------------
(* add_log: read the whole log, insert at the front, keep the first 100 *)

LogCap == 100

Truncate(s, n) == IF Len(s) <= n THEN s ELSE SubSeq(s, 1, n)

\* the store rewritten without the cut of line 75
AddLogUncapped(store, entry) == <<entry>> \o store

AddLog(store, entry) == Truncate(<<entry>> \o store, LogCap)

RECURSIVE AddLogs(_, _)
AddLogs(store, entries) ==
  IF entries = <<>> THEN store
  ELSE AddLogs(AddLog(store, Head(entries)), Tail(entries))

----------------------------------------------------------------------------
(* Outbound requests *)

\* a request is its kind, the key it names and the status of its answer
Req(kind, key, status) == [kind |-> kind, key |-> key, status |-> status]

\* response.raise_for_status(), or requests.get itself raising (status 0)
RaisesForStatus(status) == status = 0 \/ status >= 400

----------------------------------------------------------------------------
(* get_tmdb_data: TMDB find by IMDB id.  A response is its HTTP status,     *)
(* whether its body parses (json), and the id of the first entry of         *)
(* movie_results and of tv_results (0: the list is empty).                  *)

FindResponse(status, json, movie, tv) ==
  [status |-> status, json |-> json, movie |-> movie, tv |-> tv]

\* get_tmdb_data without its try/except: a failed request leaves the function
GetTmdbDataUncaught(imdb_id, resp) ==
  IF RaisesForStatus(resp.status) \/ ~resp.json
  THEN [tmdb_id |-> 0, media_type |-> "",
        reqs |-> <<Req("find", 0, resp.status)>>, logs |-> <<>>, raised |-> TRUE]
  ELSE IF resp.movie # 0
  THEN [tmdb_id |-> resp.movie, media_type |-> "movie",
        reqs |-> <<Req("find", 0, resp.status)>>, logs |-> <<>>, raised |-> FALSE]
  ELSE [tmdb_id |-> resp.tv, media_type |-> IF resp.tv # 0 THEN "tv" ELSE "",
        reqs |-> <<Req("find", 0, resp.status)>>, logs |-> <<>>, raised |-> FALSE]

GetTmdbData(imdb_id, resp) ==
  IF RaisesForStatus(resp.status) \/ ~resp.json
  THEN [tmdb_id |-> 0, media_type |-> "",
        reqs |-> <<Req("find", 0, resp.status)>>,
        logs |-> <<Entry("error", "Error getting TMDB data")>>,
        raised |-> FALSE]
  ELSE IF resp.movie # 0
  THEN [tmdb_id |-> resp.movie, media_type |-> "movie",
        reqs |-> <<Req("find", 0, resp.status)>>, logs |-> <<>>, raised |-> FALSE]
  ELSE IF resp.tv # 0
  THEN [tmdb_id |-> resp.tv, media_type |-> "tv",
        reqs |-> <<Req("find", 0, resp.status)>>, logs |-> <<>>, raised |-> FALSE]
  ELSE [tmdb_id |-> 0, media_type |-> "",
        reqs |-> <<Req("find", 0, resp.status)>>, logs |-> <<>>, raised |-> FALSE]

----------------------------------------------------------------------------
(* check_streaming_availability.  A configured service is a bare integer    *)
(* (legacy), a dict {id, region} or something else; a provider of a         *)
(* flatrate list is a dict {provider_id, provider_name} or something else.  *)
(* resp[region] is the answer to the watch-providers request made for that  *)
(* region: its status, whether its body parses, and the flatrate list the   *)
(* body holds for that region (empty when the region or the list is         *)
(* absent).                                                                 *)

Service(id, region) == [kind |-> "dict", id |-> id, region |-> region]
LegacyService(id) == [kind |-> "int", id |-> id]
InvalidService == [kind |-> "other"]

Provider(id, name) == [kind |-> "dict", provider_id |-> id, provider_name |-> name]
InvalidProvider == [kind |-> "other"]

ProvidersResponse(status, json, flatrate) ==
  [status |-> status, json |-> json, flatrate |-> flatrate]

\* a bare integer looked up in another region than 'US'
ServiceRegionLegacyDE(service) == IF service.kind = "int" THEN "DE" ELSE service.region

ServiceRegion(service) == IF service.kind = "int" THEN "US" ELSE service.region

ServiceObj(service) == [id |-> service.id, region |-> ServiceRegion(service)]

IsService(service) == service.kind \in {"int", "dict"}

IsNoService(service) == ~IsService(service)

\* one warning for every entry that is neither an integer nor a dict
InvalidServiceLogs(services) ==
  [i \in 1..Len(SelectSeq(services, IsNoService)) |->
     Entry("warning", "Invalid service format")]

\* one lookup for every configured service, grouped or not
RegionPerService(services, seen) ==
  seen \o [i \in 1..Len(SelectSeq(services, IsService)) |->
            ServiceRegion(SelectSeq(services, IsService)[i])]

\* the keys of regions_to_check, in insertion order
RECURSIVE RegionOrder(_, _)
RegionOrder(services, seen) ==
  IF services = <<>> THEN seen
  ELSE IF ~IsService(Head(services)) \/ ServiceRegion(Head(services)) \in SeqToSet(seen)
  THEN RegionOrder(Tail(services), seen)
  ELSE RegionOrder(Tail(services), Append(seen, ServiceRegion(Head(services))))

\* every configured service, whatever its region
ServicesOfAnyRegion(services, region) ==
  [i \in 1..Len(SelectSeq(services, IsService)) |->
     ServiceObj(SelectSeq(services, IsService)[i])]

\* regions_to_check[region]
RECURSIVE ServicesOfRegion(_, _)
ServicesOfRegion(services, region) ==
  IF services = <<>> THEN <<>>
  ELSE IF IsService(Head(services)) /\ ServiceRegion(Head(services)) = region
  THEN <<ServiceObj(Head(services))>> \o ServicesOfRegion(Tail(services), region)
  ELSE ServicesOfRegion(Tail(services), region)

ServiceName(provider_name, region) == provider_name \o " (" \o region \o ")"

AddMatch(acc, service_name) ==
  IF service_name \in SeqToSet(acc.labels) THEN acc
  ELSE [acc EXCEPT !.labels = Append(@, service_name),
                   !.logs = Append(@, Entry("success", "MATCH"))]

\* for service in services: compare, append the label if new
RECURSIVE MatchServices(_, _, _, _)
MatchServices(provider, region, services, acc) ==
  IF services = <<>> THEN acc
  ELSE IF provider.provider_id = Head(services).id
  THEN MatchServices(provider, region, Tail(services),
                     AddMatch(acc, ServiceName(provider.provider_name, region)))
  ELSE MatchServices(provider, region, Tail(services), acc)

\* for provider in region_data['flatrate']
RECURSIVE MatchProviders(_, _, _, _)
MatchProviders(flatrate, region, services, acc) ==
  IF flatrate = <<>> THEN acc
  ELSE IF Head(flatrate).kind # "dict"
  THEN MatchProviders(Tail(flatrate), region, services,
         [acc EXCEPT !.logs = Append(@, Entry("warning", "Provider is not a dict"))])
  ELSE IF Head(flatrate).provider_id = 0
  THEN MatchProviders(Tail(flatrate), region, services, acc)
  ELSE MatchProviders(Tail(flatrate), region, services,
                      MatchServices(Head(flatrate), region, services, acc))

Requested(acc, region, status) ==
  [acc EXCEPT !.regions = Append(@, region),
              !.reqs = Append(@, Req("providers", 0, status))]

\* for region, services in regions_to_check.items(): request, then match
RECURSIVE CheckRegions(_, _, _, _)
CheckRegions(order, services, resp, acc) ==
  IF order = <<>> THEN acc
  ELSE IF RaisesForStatus(resp[Head(order)].status) \/ ~resp[Head(order)].json
  THEN [Requested(acc, Head(order), resp[Head(order)].status) EXCEPT !.failed = TRUE]
  ELSE CheckRegions(Tail(order), services, resp,
         MatchProviders(resp[Head(order)].flatrate, Head(order),
                        ServicesOfRegion(services, Head(order)),
                        Requested(acc, Head(order), resp[Head(order)].status)))

\* the labels gathered so far, kept although a request failed
AvailabilityPartial(out) ==
  [available |-> Len(out.labels) > 0, providers |-> out.labels,
   regions |-> out.regions, reqs |-> out.reqs, logs |-> out.logs,
   raised |-> FALSE]

\* the return statements of check_streaming_availability
AvailabilityResult(out) ==
  IF out.failed
  THEN [available |-> FALSE, providers |-> <<>>, regions |-> out.regions,
        reqs |-> out.reqs,
        logs |-> out.logs \o <<Entry("warning", "Error checking streaming availability"),
                               Entry("error", "Traceback")>>,
        raised |-> FALSE]
  ELSE [available |-> Len(out.labels) > 0, providers |-> out.labels,
        regions |-> out.regions, reqs |-> out.reqs, logs |-> out.logs,
        raised |-> FALSE]

CheckStreamingAvailability(services, resp) ==
  AvailabilityResult(
    CheckRegions(RegionOrder(services, <<>>), services, resp,
                 [labels |-> <<>>, regions |-> <<>>, reqs |-> <<>>,
                  logs |-> InvalidServiceLogs(services), failed |-> FALSE]))

----------------------------------------------------------------------------
(* Plex watchlist client.  A search answer is its status and the candidates *)
(* of its result groups in response order; a candidate is its ratingKey     *)
(* (0: missing), the status of the metadata request for it and the GUID     *)
(* strings of the metadata that request returns.                            *)

Candidate(rating_key, meta_status, guids) ==
  [rating_key |-> rating_key, meta_status |-> meta_status, guids |-> guids]

SearchResponse(status, cands) == [status |-> status, cands |-> cands]

ImdbGuid(imdb_id) == <<"imdb://">> \o imdb_id

\* a candidate accepted as soon as its metadata can be fetched
GuidMatchesByName(imdb_id, c) == c.meta_status = 200

\* for guid in guids: if imdb_id in guid_id
GuidMatches(imdb_id, c) ==
  c.meta_status = 200 /\ \E i \in 1..Len(c.guids) : IsSubstring(imdb_id, c.guids[i])

Sent(acc, req) == [acc EXCEPT !.reqs = Append(@, req)]

\* for result_group ... for item ...: fetch the metadata, look for the imdb_id
RECURSIVE VerifyCandidates(_, _, _)
VerifyCandidates(imdb_id, cands, acc) ==
  IF cands = <<>> THEN acc
  ELSE IF Head(cands).rating_key = 0 THEN VerifyCandidates(imdb_id, Tail(cands), acc)
  ELSE IF Head(cands).meta_status = 0
  THEN [Sent(acc, Req("metadata", Head(cands).rating_key, 0)) EXCEPT !.raised = TRUE]
  ELSE IF GuidMatches(imdb_id, Head(cands))
  THEN [Sent(acc, Req("metadata", Head(cands).rating_key, 200))
          EXCEPT !.rating_key = Head(cands).rating_key]
  ELSE VerifyCandidates(imdb_id, Tail(cands),
         Sent(acc, Req("metadata", Head(cands).rating_key, Head(cands).meta_status)))

\* for search_query in search_queries
RECURSIVE SearchQueries(_, _, _)
SearchQueries(imdb_id, queries, acc) ==
  IF queries = <<>> \/ acc.raised \/ acc.rating_key # 0 THEN acc
  ELSE IF Head(queries).status = 0
  THEN [Sent(acc, Req("search", 0, 0)) EXCEPT !.raised = TRUE]
  ELSE IF Head(queries).status # 200
  THEN SearchQueries(imdb_id, Tail(queries),
                     Sent(acc, Req("search", 0, Head(queries).status)))
  ELSE SearchQueries(imdb_id, Tail(queries),
         VerifyCandidates(imdb_id, Head(queries).cands,
                          Sent(acc, Req("search", 0, 200))))

\* the return statements of search_and_verify_plex
SearchResult(out) ==
  IF out.raised
  THEN [rating_key |-> 0, reqs |-> out.reqs,
        logs |-> <<Entry("error", "Error searching Plex")>>, raised |-> FALSE]
  ELSE [rating_key |-> out.rating_key, reqs |-> out.reqs,
        logs |-> IF out.rating_key # 0 THEN <<Entry("success", "MATCH")>> ELSE <<>>,
        raised |-> FALSE]

SearchAndVerifyPlex(imdb_id, queries) ==
  SearchResult(SearchQueries(imdb_id, queries,
                             [rating_key |-> 0, reqs |-> <<>>, raised |-> FALSE]))

Returned(ok, reqs, lgs) == [ok |-> ok, reqs |-> reqs, logs |-> lgs, raised |-> FALSE]

\* the test of line 719 accepting 200 only
AddSucceededOnly200(status) == status = 200

\* line 719: response.status_code in [200, 204]
AddSucceeded(status) == status \in {200, 204}

\* add_to_plex_watchlist after search_and_verify_plex returned
AddVerified(found, put) ==
  IF found.rating_key = 0 THEN Returned(FALSE, found.reqs, found.logs)
  ELSE IF put = 0
  THEN Returned(FALSE, Append(found.reqs, Req("addToWatchlist", found.rating_key, put)),
                Append(found.logs, Entry("error", "Error adding to Plex")))
  ELSE IF AddSucceeded(put)
  THEN Returned(TRUE, Append(found.reqs, Req("addToWatchlist", found.rating_key, put)),
                Append(found.logs, Entry("success", "Added")))
  ELSE Returned(FALSE, Append(found.reqs, Req("addToWatchlist", found.rating_key, put)),
                found.logs)

\* plex: the answers to the two search queries and the status of the action request
AddToPlexWatchlist(imdb_id, plex) ==
  AddVerified(SearchAndVerifyPlex(imdb_id, plex.queries), plex.put)

\* line 749: response.status_code in [200, 204]
RemoveSucceeded(status) == status \in {200, 204}

\* remove with a 404 answer handled like every other refusal
RemoveVerifiedStrict(found, put) ==
  IF found.rating_key = 0 THEN Returned(FALSE, found.reqs, found.logs)
  ELSE IF put \in {200, 204}
  THEN Returned(TRUE, Append(found.reqs, Req("removeFromWatchlist", found.rating_key, put)),
                Append(found.logs, Entry("success", "Removed")))
  ELSE Returned(FALSE, Append(found.reqs, Req("removeFromWatchlist", found.rating_key, put)),
                Append(found.logs, Entry("error", "Failed to remove")))

\* remove_from_plex_watchlist after search_and_verify_plex returned
RemoveVerified(found, put) ==
  IF found.rating_key = 0 THEN Returned(FALSE, found.reqs, found.logs)
  ELSE IF put = 0
  THEN Returned(FALSE, Append(found.reqs, Req("removeFromWatchlist", found.rating_key, put)),
                Append(found.logs, Entry("error", "Error removing from Plex")))
  ELSE IF RemoveSucceeded(put)
  THEN Returned(TRUE, Append(found.reqs, Req("removeFromWatchlist", found.rating_key, put)),
                Append(found.logs, Entry("success", "Removed")))
  ELSE IF put = 404
  THEN Returned(FALSE, Append(found.reqs, Req("removeFromWatchlist", found.rating_key, put)),
                found.logs)
  ELSE Returned(FALSE, Append(found.reqs, Req("removeFromWatchlist", found.rating_key, put)),
                Append(found.logs, Entry("error", "Failed to remove")))

RemoveFromPlexWatchlist(imdb_id, plex) ==
  RemoveVerified(SearchAndVerifyPlex(imdb_id, plex.queries), plex.put)

----------------------------------------------------------------------------
(* sync_watchlist, the body of  for item in items.  Titles and years are    *)
(* carried along by the code without deciding anything and are left out,    *)
(* and so is the media type once it is known to be set: it only names the   *)
(* TMDB endpoint.                                                           *)

NoError == "<None>"

Item(imdb_id, tmdb_id, media_type) ==
  [imdb_id |-> imdb_id, tmdb_id |-> tmdb_id, media_type |-> media_type]

ExternalIdsResponse(status, json, imdb_id) ==
  [status |-> status, json |-> json, imdb_id |-> imdb_id]

NewResult(item) ==
  [imdb_id |-> item.imdb_id, status |-> "processing",
   streaming_services |-> <<>>, error |-> NoError]

\* a failure that sets the status and leaves the error unset
FailedWithoutError(result, error) == [result EXCEPT !.status = "failed"]

Failed(result, error) == [result EXCEPT !.status = "failed", !.error = error]

\* the try block around the external_ids request
FetchExternalIds(resp) ==
  IF RaisesForStatus(resp.status) \/ ~resp.json
  THEN [imdb_id |-> None, fetched |-> FALSE, reqs |-> <<Req("external_ids", 0, resp.status)>>,
        logs |-> <<Entry("warning", "Could not fetch external IDs")>>, raised |-> FALSE]
  ELSE [imdb_id |-> resp.imdb_id, fetched |-> TRUE, reqs |-> <<Req("external_ids", 0, resp.status)>>,
        logs |-> <<>>, raised |-> FALSE]

NoTrace == [checked |-> FALSE, available |-> FALSE, attempted |-> "none",
            ok |-> FALSE, imdb_id |-> None]

\* what one iteration leaves behind
Iteration(result, counted, reqs, lgs, tr, slept, raised) ==
  [result |-> result, counted |-> counted,
   reqs |-> IF slept THEN Append(reqs, Req("sleep", 0, 0)) ELSE reqs,
   logs |-> lgs, tr |-> tr, raised |-> raised]

\* the branch of line 1002 taken the other way round
OnStreamingInverted(avail) == ~avail.available

\* line 1002: if is_available
OnStreaming(avail) == avail.available

\* the status were the return value of remove_from_plex_watchlist ignored
RemoveStatusIgnoringResult(ok) == "removed"

\* lines 1008-1013: the status after remove_from_plex_watchlist returned
RemoveStatus(ok) == IF ok THEN "removed" ELSE "skipped"

\* lines 1019-1024: the result after add_to_plex_watchlist returned
AddResult(result, ok) ==
  IF ok THEN [result EXCEPT !.status = "added"]
  ELSE Failed(result, "Not in Plex or no IMDB match")

Checked(avail, imdb_id) ==
  [NoTrace EXCEPT !.checked = TRUE, !.available = avail.available, !.imdb_id = imdb_id]

\* lines 1004-1014, after remove_from_plex_watchlist returned rm
SyncRemoved(result, avail, imdb_id, rm, reqs, lgs) ==
  Iteration([result EXCEPT !.streaming_services = avail.providers,
                           !.status = RemoveStatus(rm.ok)],
            RemoveStatus(rm.ok), reqs \o rm.reqs,
            lgs \o <<Entry("warning", "Available on"),
                     Entry("warning", "Attempting to remove from Plex watchlist")>>
                \o rm.logs,
            [Checked(avail, imdb_id) EXCEPT !.attempted = "remove", !.ok = rm.ok],
            ~rm.raised, rm.raised)

\* lines 1017-1024, after add_to_plex_watchlist returned ad
SyncAdded(result, avail, imdb_id, ad, reqs, lgs) ==
  Iteration(AddResult(result, ad.ok), IF ad.ok THEN "added" ELSE "none",
            reqs \o ad.reqs,
            lgs \o <<Entry("success", "Adding to Plex watchlist")>> \o ad.logs,
            [Checked(avail, imdb_id) EXCEPT !.attempted = "add", !.ok = ad.ok],
            ~ad.raised, ad.raised)

\* lines 996-1027: the part of the iteration after the availability check
\* and the reverse lookup
SyncAfterCheck(result, imdb_id, avail, world, reqs, lgs) ==
  IF ~Truthy(imdb_id)
  THEN Iteration(Failed(result, "No IMDB ID available"), "none", reqs, lgs,
                 Checked(avail, imdb_id), FALSE, FALSE)
  ELSE IF OnStreaming(avail)
  THEN SyncRemoved(result, avail, imdb_id,
                   RemoveFromPlexWatchlist(imdb_id, world.plex), reqs, lgs)
  ELSE SyncAdded(result, avail, imdb_id,
                 AddToPlexWatchlist(imdb_id, world.plex), reqs, lgs)

\* lines 986-994, after the external_ids request returned ext
SyncBackfilled(result, avail, world, ext, reqs, lgs) ==
  IF ext.raised
  THEN Iteration(result, "none", reqs \o ext.reqs, lgs \o ext.logs, NoTrace, FALSE, TRUE)
  ELSE SyncAfterCheck(IF ext.fetched THEN [result EXCEPT !.imdb_id = ext.imdb_id]
                      ELSE result,
                      ext.imdb_id, avail, world, reqs \o ext.reqs, lgs \o ext.logs)

\* lines 978-986, after check_streaming_availability returned avail
SyncChecked(result, imdb_id, world, avail, reqs, lgs) ==
  IF avail.raised
  THEN Iteration(result, "none", reqs \o avail.reqs, lgs \o avail.logs, NoTrace,
                 FALSE, TRUE)
  ELSE IF Truthy(imdb_id)
  THEN SyncAfterCheck(result, imdb_id, avail, world, reqs \o avail.reqs,
                      lgs \o avail.logs)
  ELSE SyncBackfilled(result, avail, world, FetchExternalIds(world.ext),
                      reqs \o avail.reqs, lgs \o avail.logs)

\* lines 972-983: the part of the iteration after the TMDB id is known
SyncResolved(result, imdb_id, services, world, reqs, lgs) ==
  SyncChecked(result, imdb_id, world,
              CheckStreamingAvailability(services, world.avail), reqs, lgs)

\* lines 965-970, after get_tmdb_data returned find
SyncFound(item, services, world, find) ==
  IF find.raised
  THEN Iteration(NewResult(item), "none", find.reqs, find.logs, NoTrace, FALSE, TRUE)
  ELSE IF find.tmdb_id = 0
  THEN Iteration(Failed(NewResult(item), "Not in TMDB"), "none", find.reqs, find.logs,
                 NoTrace, FALSE, FALSE)
  ELSE SyncResolved(NewResult(item), item.imdb_id, services, world, find.reqs, find.logs)

\* lines 940-1027: one iteration of  for item in items
SyncItem(item, services, world) ==
  IF item.tmdb_id # 0 /\ item.media_type # ""
  THEN SyncResolved(NewResult(item), item.imdb_id, services, world, <<>>, <<>>)
  ELSE SyncFound(item, services, world, GetTmdbData(item.imdb_id, world.find))

----------------------------------------------------------------------------
(* List fetchers.  Every fetcher returns the items, the requests it made    *)
(* and the log entries it added.                                            *)

Fetched(its, reqs, lgs) == [items |-> its, reqs |-> reqs, logs |-> lgs, raised |-> FALSE]

ItemIds(its) == {its[i].imdb_id : i \in 1..Len(its)}

(* scrape_watchlist_page.  A page is what each extraction method finds in   *)
(* it, in document order: the objects of its JSON script tags that carry    *)
(* both titleText and id (script), the ids of the matches of the two        *)
(* regular expressions (forward, reverse) and the ids of the links to title *)
(* pages (anchors).                                                         *)

Sufficient == 50

ScriptObject(title, id) == [title |-> title, id |-> id]

Page(script, forward, reverse, anchors) ==
  [script |-> script, forward |-> forward, reverse |-> reverse, anchors |-> anchors]

\* extract_from_dict: title and id.startswith('tt') and id not in seen, seen
\* holding the ids of its and of the objects appended before objects[i]
ExtractsObject(objects, i, its) ==
  /\ objects[i].title # ""
  /\ StartsWithTT(objects[i].id)
  /\ objects[i].id \notin ItemIds(its)
  /\ \A j \in 1..(i - 1) : objects[j].title = "" \/ objects[j].id # objects[i].id

ItemsOfObjects(objects, indexes) ==
  [k \in 1..Len(indexes) |-> Item(objects[indexes[k]].id, 0, "")]

ExtractFromDict(objects, its) ==
  its \o ItemsOfObjects(objects,
                        SelectSeq([i \in 1..Len(objects) |-> i],
                                  LAMBDA i : ExtractsObject(objects, i, its)))

\* for ... in matches: if imdb_id not in seen_ids
RECURSIVE AddUnseen(_, _)
AddUnseen(ids, its) ==
  IF ids = <<>> THEN its
  ELSE AddUnseen(Tail(ids),
         IF Head(ids) \notin ItemIds(its) THEN Append(its, Item(Head(ids), 0, ""))
         ELSE its)

\* a strategy of the extractor: the number of items before it and whether
\* its condition let it run
Step(name, before, ran) == [name |-> name, before |-> before, ran |-> ran]

Skipped(acc, name) ==
  [acc EXCEPT !.steps = Append(@, Step(name, Len(acc.items), FALSE))]

Extracted(acc, name, ids) ==
  [items |-> AddUnseen(ids, acc.items),
   steps |-> Append(acc.steps, Step(name, Len(acc.items), TRUE))]

\* lines 112-145: Method 1, the script tags
ScrapeScript(page) ==
  [items |-> ExtractFromDict(page.script, <<>>), steps |-> <<Step("script", 0, TRUE)>>]

\* lines 150-167: Method 2
ScrapeForward(page, acc) ==
  IF Len(acc.items) < Sufficient THEN Extracted(acc, "forward", page.forward)
  ELSE Skipped(acc, "forward")

\* lines 170-185: Method 3
ScrapeReverse(page, acc) ==
  IF Len(acc.items) < Sufficient THEN Extracted(acc, "reverse", page.reverse)
  ELSE Skipped(acc, "reverse")

\* the fallback run whenever fewer than 50 items were found
ScrapeLinksBelowThreshold(page, acc) ==
  IF Len(acc.items) < Sufficient
  THEN [items |-> AddUnseen(page.anchors, acc.items),
        logs |-> <<Entry("warning", "JSON extraction failed, trying traditional scraping")>>,
        steps |-> Append(acc.steps, Step("links", Len(acc.items), TRUE))]
  ELSE [items |-> acc.items, logs |-> <<>>,
        steps |-> Append(acc.steps, Step("links", Len(acc.items), FALSE))]

\* lines 190-229: the fallback over the title links, and the return
ScrapeLinks(page, acc) ==
  IF acc.items = <<>>
  THEN [items |-> AddUnseen(page.anchors, acc.items),
        logs |-> <<Entry("warning", "JSON extraction failed, trying traditional scraping")>>,
        steps |-> Append(acc.steps, Step("links", Len(acc.items), TRUE))]
  ELSE [items |-> acc.items, logs |-> <<>>,
        steps |-> Append(acc.steps, Step("links", Len(acc.items), FALSE))]

ScrapeWatchlistPage(page) ==
  ScrapeLinks(page, ScrapeReverse(page, ScrapeForward(page, ScrapeScript(page))))

(* get_imdb_list_data, get_imdb_export_data, get_imdb_watchlist.  An answer *)
(* is its status, the page it carries and whether that page names a list id *)

PageResponse(status, page, list_id) == [status |-> status, page |-> page, list_id |-> list_id]

\* lines 386-398, after scrape_watchlist_page returned scraped
ListScraped(status, scraped) ==
  IF scraped.items # <<>>
  THEN Fetched(scraped.items, <<Req("imdb_list", 0, status)>>,
               Append(scraped.logs, Entry("success", "JSON extraction successful")))
  ELSE Fetched(<<>>, <<Req("imdb_list", 0, status)>>,
               scraped.logs \o <<Entry("warning", "JSON extraction returned no items"),
                                 Entry("error", "Could not extract items from list")>>)

GetImdbListData(resp) ==
  IF resp.status = 0
  THEN Fetched(<<>>, <<Req("imdb_list", 0, resp.status)>>,
               <<Entry("warning", "JSON extraction error"),
                 Entry("error", "Could not extract items from list")>>)
  ELSE IF resp.status # 200
  THEN Fetched(<<>>, <<Req("imdb_list", 0, resp.status)>>,
               <<Entry("error", "List page returned status"),
                 Entry("error", "Could not extract items from list")>>)
  ELSE ListScraped(resp.status, ScrapeWatchlistPage(resp.page))

\* line 283: return get_imdb_list_data(list_id)
ExportDirect(reqs, lgs, direct) ==
  Fetched(direct.items, reqs \o direct.reqs, lgs \o direct.logs)

\* lines 259-286, after scrape_watchlist_page returned scraped
ExportScraped(resp, listResp, scraped) ==
  IF scraped.items # <<>>
  THEN Fetched(scraped.items, <<Req("imdb_watchlist", 0, resp.status)>>,
               Append(scraped.logs, Entry("success", "JSON extraction successful")))
  ELSE IF resp.list_id
  THEN ExportDirect(<<Req("imdb_watchlist", 0, resp.status)>>,
                    Append(scraped.logs,
                           Entry("warning", "JSON extraction returned no items")),
                    GetImdbListData(listResp))
  ELSE Fetched(<<>>, <<Req("imdb_watchlist", 0, resp.status)>>,
               scraped.logs \o <<Entry("warning", "JSON extraction returned no items"),
                                 Entry("error", "Could not extract any items")>>)

GetImdbExportData(resp, listResp) ==
  IF resp.status = 0
  THEN Fetched(<<>>, <<Req("imdb_watchlist", 0, resp.status)>>,
               <<Entry("error", "Error in get_imdb_export_data"),
                 Entry("error", "Traceback")>>)
  ELSE IF resp.status # 200
  THEN Fetched(<<>>, <<Req("imdb_watchlist", 0, resp.status)>>,
               <<Entry("error", "Failed to fetch watchlist")>>)
  ELSE ExportScraped(resp, listResp, ScrapeWatchlistPage(resp.page))

\* url: "list" for .../list/ls<digits>, "user" for ...user/ur<digits>..., else "other"
GetImdbWatchlist(url, resp, listResp) ==
  IF url = "list" THEN GetImdbListData(resp)
  ELSE IF url = "user" THEN GetImdbExportData(resp, listResp)
  ELSE Fetched(<<>>, <<>>, <<Entry("error", "Could not parse URL")>>)

(* get_tmdb_list.  An entry of the answer's items is a dict or something    *)
(* else; a dict's media_type is "" when the key is absent.                  *)

TmdbEntry(id, media_type) == [kind |-> "dict", id |-> id, media_type |-> media_type]
BadEntry == [kind |-> "other"]

TmdbListResponse(status, json, entries) ==
  [status |-> status, json |-> json, entries |-> entries]

TmdbItem(entry) ==
  Item(None, entry.id, IF entry.media_type = "" THEN "movie" ELSE entry.media_type)

\* for entry in data.get('items', []): an entry that is no dict raises
RECURSIVE MapTmdbEntries(_, _)
MapTmdbEntries(entries, acc) ==
  IF entries = <<>> THEN acc
  ELSE IF Head(entries).kind # "dict" THEN [acc EXCEPT !.failed = TRUE]
  ELSE MapTmdbEntries(Tail(entries),
                      [acc EXCEPT !.items = Append(@, TmdbItem(Head(entries)))])

\* lines 448-451: the except block and the return
TmdbMapped(status, out) ==
  Fetched(out.items, <<Req("tmdb_list", 0, status)>>,
          IF out.failed THEN <<Entry("error", "Error fetching TMDB list")>> ELSE <<>>)

GetTmdbList(resp) ==
  IF RaisesForStatus(resp.status) \/ ~resp.json
  THEN Fetched(<<>>, <<Req("tmdb_list", 0, resp.status)>>,
               <<Entry("error", "Error fetching TMDB list")>>)
  ELSE TmdbMapped(resp.status,
                  MapTmdbEntries(resp.entries, [items |-> <<>>, failed |-> FALSE]))

(* get_trakt_list.  pages[p] answers the request for page p (an empty list  *)
(* past the last one); page_count is the X-Pagination-Page-Count header, 0  *)
(* when the header is absent.  An entry is a dict or something else; a      *)
(* dict names its type, whether it carries the object of that type (or a    *)
(* movie or a show), and that object's imdb and tmdb ids.                   *)

TraktEntry(type, obj, imdb, tmdb) ==
  [kind |-> "dict", type |-> type, obj |-> obj, imdb |-> imdb, tmdb |-> tmdb]

TraktPage(status, json, entries, page_count) ==
  [status |-> status, json |-> json, entries |-> entries, page_count |-> page_count]

EmptyTraktPage == TraktPage(200, TRUE, <<>>, 0)

TraktItem(entry) ==
  Item(entry.imdb, entry.tmdb, IF entry.type = "show" THEN "tv" ELSE "movie")

\* for entry in entries
RECURSIVE MapTraktEntries(_, _)
MapTraktEntries(entries, acc) ==
  IF entries = <<>> THEN acc
  ELSE IF Head(entries).kind # "dict" THEN [acc EXCEPT !.failed = TRUE]
  ELSE IF ~Head(entries).obj THEN MapTraktEntries(Tail(entries), acc)
  ELSE MapTraktEntries(Tail(entries),
                       [acc EXCEPT !.items = Append(@, TraktItem(Head(entries)))])

\* the answer to the request for page number page
TraktAnswer(pages, page) == IF page <= Len(pages) THEN pages[page] ELSE EmptyTraktPage

\* line 513: int(response.headers.get('X-Pagination-Page-Count', 1))
TotalPages(r) == IF r.page_count = 0 THEN 1 ELSE r.page_count

\* while True: request the page, map its entries, stop at the last page
RECURSIVE TraktPages(_, _, _)
RECURSIVE TraktMapped(_, _, _, _)
TraktMapped(pages, page, r, mapped) ==
  IF mapped.failed \/ page >= TotalPages(r) THEN mapped
  ELSE TraktPages(pages, page + 1, mapped)

TraktRequested(pages, page, r, sent) ==
  IF RaisesForStatus(r.status) \/ ~r.json THEN [sent EXCEPT !.failed = TRUE]
  ELSE IF r.entries = <<>> THEN sent
  ELSE TraktMapped(pages, page, r, MapTraktEntries(r.entries, sent))

TraktPages(pages, page, acc) ==
  TraktRequested(pages, page, TraktAnswer(pages, page),
                 Sent(acc, Req("trakt_page", page, TraktAnswer(pages, page).status)))

\* lines 518-523: the except block and the return
TraktReturned(out) ==
  Fetched(out.items, out.reqs,
          IF out.failed THEN <<Entry("error", "Error fetching Trakt list"),
                               Entry("error", "Traceback")>>
          ELSE <<>>)

\* url: "watchlist", "custom" (a named list) or "other"
GetTraktList(url, pages) ==
  IF url \notin {"watchlist", "custom"}
  THEN Fetched(<<>>, <<>>, <<Entry("error", "Unrecognised Trakt URL format")>>)
  ELSE TraktReturned(TraktPages(pages, 1, [items |-> <<>>, reqs |-> <<>>, failed |-> FALSE]))

----------------------------------------------------------------------------
(* sync_watchlist as a state machine: start -> fetch -> loop -> done, with  *)
(* rejected, unknown_source and no_items for the early returns (lines       *)
(* 884-896, 930 and 907-925) and crashed for an exception that leaves       *)
(* sync_watchlist.                                                          *)

MaxItems == 2

Regions == {"US", "DE"}

SeqsUpTo(S, n) == UNION {[1..k -> S] : k \in 0..n}

NoCall == [fn |-> "none"]
NoReturn == [fn |-> "none"]

Unwritten == [written |-> FALSE, data |-> <<>>]
Written(data) == [written |-> TRUE, data |-> data]

\* the streamingServices every configuration of the orchestrator model carries
SyncServices == <<Service(8, "US")>>

\* every way of filling in the credentials and the identifiers of the
\* selected source; the identifiers of the other sources are left empty
Configs ==
  {c \in [listSource : {"imdb", "tmdb", "trakt", "letterboxd"},
          imdbListUrl : {"", "list", "user"},
          tmdbListId : {"", "42"},
          traktListUrl : {"", "watchlist"},
          traktApiKey : {"", "key"},
          plexToken : {"", "token"},
          tmdbApiKey : {"", "key"},
          streamingServices : {SyncServices}] :
     /\ c.listSource # "imdb" => c.imdbListUrl = ""
     /\ c.listSource # "tmdb" => c.tmdbListId = ""
     /\ c.listSource # "trakt" => c.traktListUrl = "" /\ c.traktApiKey = ""}

\* the answers the list sources give in the orchestrator model
EmptyPage == Page(<<>>, <<>>, <<>>, <<>>)
ImdbAnswers ==
  {PageResponse(200, Page([i \in 1..Len(ids) |-> ScriptObject("T", ids[i])],
                          <<>>, <<>>, <<>>), FALSE) :
     ids \in SeqsUpTo({TT1}, MaxItems)}
    \cup {PageResponse(404, EmptyPage, FALSE)}
TmdbAnswers ==
  {TmdbListResponse(200, TRUE, es) : es \in SeqsUpTo({TmdbEntry(1, "movie")}, MaxItems)}
    \cup {TmdbListResponse(401, TRUE, <<>>)}
TraktAnswers ==
  {<<TraktPage(200, TRUE, es, 1)>> :
     es \in SeqsUpTo({TraktEntry("movie", TRUE, TT1, 0), TraktEntry("show", TRUE, None, 1)},
                     MaxItems)}
    \cup {<<TraktPage(0, TRUE, <<>>, 0)>>}

\* the answers the services give while one item is processed; an answer to
\* a request the iteration cannot make is not enumerated
FindAnswers ==
  {FindResponse(200, TRUE, 1, 1), FindResponse(200, TRUE, 0, 1),
   FindResponse(200, TRUE, 0, 0), FindResponse(404, TRUE, 0, 0),
   FindResponse(0, TRUE, 0, 0), FindResponse(200, FALSE, 0, 0)}
AvailAnswers ==
  {[r \in Regions |-> a] :
     a \in {ProvidersResponse(200, TRUE, <<>>),
            ProvidersResponse(200, TRUE, <<Provider(8, "Netflix")>>),
            ProvidersResponse(500, TRUE, <<>>)}}
ExternalIdsAnswers ==
  {ExternalIdsResponse(200, TRUE, TT1), ExternalIdsResponse(200, TRUE, None),
   ExternalIdsResponse(0, TRUE, None)}
Verified == Candidate(7, 200, <<<<"tmdb://", "1">>, ImdbGuid(TT1)>>)
NameOnly == Candidate(8, 200, <<ImdbGuid(TT2)>>)
PlexAnswers ==
  [queries : {<<SearchResponse(200, <<NameOnly, Verified>>), SearchResponse(200, <<>>)>>},
   put : {200, 204, 404, 500, 0}]
    \cup [queries : {<<SearchResponse(200, <<NameOnly>>), SearchResponse(200, <<>>)>>,
                     <<SearchResponse(0, <<>>), SearchResponse(200, <<>>)>>},
          put : {0}]
Worlds(item) ==
  [find : IF item.tmdb_id # 0 /\ item.media_type # "" THEN {FindResponse(0, TRUE, 0, 0)}
          ELSE FindAnswers,
   avail : AvailAnswers,
   ext : IF Truthy(item.imdb_id) THEN {ExternalIdsResponse(0, TRUE, None)}
         ELSE ExternalIdsAnswers,
   plex : PlexAnswers]

\* the validation with  not (url or key)  for the Trakt source
ValidationErrorEitherTrakt(c) ==
  IF c.plexToken = "" \/ c.tmdbApiKey = ""
  THEN "Configuration incomplete. Plex Token and TMDB API Key are required."
  ELSE IF c.listSource = "imdb" /\ c.imdbListUrl = ""
  THEN "IMDB List URL is required for IMDB source."
  ELSE IF c.listSource = "tmdb" /\ c.tmdbListId = ""
  THEN "TMDB List ID is required for TMDB source."
  ELSE IF c.listSource = "trakt" /\ ~(c.traktListUrl # "" \/ c.traktApiKey # "")
  THEN "Trakt List URL and Trakt API Key are required for Trakt source."
  ELSE ""

\* lines 884-896: the message of the validation that fails, "" when none does
ValidationError(c) ==
  IF c.plexToken = "" \/ c.tmdbApiKey = ""
  THEN "Configuration incomplete. Plex Token and TMDB API Key are required."
  ELSE IF c.listSource = "imdb" /\ c.imdbListUrl = ""
  THEN "IMDB List URL is required for IMDB source."
  ELSE IF c.listSource = "tmdb" /\ c.tmdbListId = ""
  THEN "TMDB List ID is required for TMDB source."
  ELSE IF c.listSource = "trakt" /\ ~(c.traktListUrl # "" /\ c.traktApiKey # "")
  THEN "Trakt List URL and Trakt API Key are required for Trakt source."
  ELSE ""

\* lines 903-926: every answer the selected source can give, fetched
FetchOutcomes(c) ==
  IF c.listSource = "imdb"
  THEN {GetImdbWatchlist(c.imdbListUrl, a, a) : a \in ImdbAnswers}
  ELSE IF c.listSource = "tmdb"
  THEN {GetTmdbList(a) : a \in TmdbAnswers}
  ELSE {GetTraktList(c.traktListUrl, a) : a \in TraktAnswers}

\* the orchestrator without its  if not items  returns
NoItemsIgnored(its) == FALSE

\* lines 907, 915, 923: if not items
NoItems(its) == its = <<>>

\* a counter raised by every iteration that reaches the end of the loop body
CountEvery(n, counted, which) == IF counted # "none" THEN n + 1 ELSE n

Count(n, counted, which) == IF counted = which THEN n + 1 ELSE n

Validate ==
  /\ pc = "start"
  /\ IF ValidationError(config) # ""
     THEN /\ logs' = AddLog(logs, Entry("error", ValidationError(config)))
          /\ pc' = "rejected"
     ELSE /\ pc' = "fetch"
          /\ UNCHANGED logs
  /\ UNCHANGED <<config, items, processed, added, skipped, removed, results, last,
                 fetchRequests, itemRequests, resultsFile, statsFile, call, ret>>

FetchList ==
  /\ pc = "fetch"
  /\ IF config.listSource \notin {"imdb", "tmdb", "trakt"}
     THEN /\ logs' = AddLog(logs, Entry("error", "Unknown list source"))
          /\ pc' = "unknown_source"
          /\ UNCHANGED <<items, fetchRequests>>
     ELSE \E f \in FetchOutcomes(config) :
            /\ fetchRequests' = f.reqs
            /\ items' = f.items
            /\ IF f.raised
               THEN /\ pc' = "crashed"
                    /\ logs' = AddLogs(logs, f.logs)
               ELSE IF NoItems(f.items)
               THEN /\ pc' = "no_items"
                    /\ logs' = AddLogs(logs, Append(f.logs, Entry("warning", "No items found")))
               ELSE /\ pc' = "loop"
                    /\ logs' = AddLogs(logs, f.logs)
  /\ UNCHANGED <<config, processed, added, skipped, removed, results, last,
                 itemRequests, resultsFile, statsFile, call, ret>>

\* every item a fetch of the orchestrator model can return
ItemPool == UNION {SeqToSet(f.items) : f \in UNION {FetchOutcomes(c) : c \in Configs}}

\* every way the iteration for an item can go, one for each choice of answers
IterationOutcomes ==
  [item \in ItemPool, services \in {SyncServices} |->
     {SyncItem(item, services, w) : w \in Worlds(item)}]

\* lines 939-1027: what one iteration does to the state of the run
Iterate(it) ==
  /\ processed' = processed + 1
  /\ itemRequests' = it.reqs
  /\ logs' = AddLogs(logs, it.logs)
  /\ last' = it.tr
  /\ IF it.raised
     THEN /\ pc' = "crashed"
          /\ UNCHANGED <<added, skipped, removed, results>>
     ELSE /\ pc' = "loop"
          /\ added' = Count(added, it.counted, "added")
          /\ skipped' = Count(skipped, it.counted, "skipped")
          /\ removed' = Count(removed, it.counted, "removed")
          /\ results' = Append(results, it.result)

ProcessItem ==
  /\ pc = "loop"
  /\ processed < Len(items)
  /\ \E it \in IterationOutcomes[items[processed + 1], config.streamingServices] :
       Iterate(it)
  /\ UNCHANGED <<config, items, fetchRequests, resultsFile, statsFile, call, ret>>

Persist ==
  /\ pc = "loop"
  /\ processed = Len(items)
  /\ resultsFile' = Written(results)
  /\ statsFile' = Written([removed |-> removed, last_sync |-> "now"])
  /\ logs' = AddLog(logs, Entry("success", "Complete"))
  /\ pc' = "done"
  /\ UNCHANGED <<config, items, processed, added, skipped, removed, results, last,
                 fetchRequests, itemRequests, call, ret>>

Init ==
  /\ pc = "start"
  /\ config \in Configs
  /\ items = <<>>
  /\ processed = 0
  /\ added = 0
  /\ skipped = 0
  /\ removed = 0
  /\ results = <<>>
  /\ last = NoTrace
  /\ fetchRequests = <<>>
  /\ itemRequests = <<>>
  /\ logs = <<>>
  /\ resultsFile = Unwritten
  /\ statsFile = Unwritten
  /\ call = NoCall
  /\ ret = NoReturn

Next == Validate \/ FetchList \/ ProcessItem \/ Persist

Spec == Init /\ [][Next]_vars

LiveSpec == Spec /\ WF_vars(Next)

----------------------------------------------------------------------------
(* check_streaming_availability called on its own: every list of up to      *)
(* MaxServices configured services against every pair of answers carrying   *)
(* up to MaxProviders flatrate providers per region.                        *)

MaxServices == 2
MaxProviders == 2

ServicePool ==
  {Service(8, "US"), Service(8, "DE"), Service(9, "US"), LegacyService(8), InvalidService}

ProviderPool == {Provider(8, "Netflix"), Provider(9, "Hulu"), InvalidProvider}

ProviderAnswers ==
  {ProvidersResponse(200, TRUE, f) : f \in SeqsUpTo(ProviderPool, MaxProviders)}
    \cup {ProvidersResponse(500, TRUE, <<>>)}

\* the variables of sync_watchlist while a function is called on its own
NoRun ==
  /\ config = <<>>
  /\ items = <<>>
  /\ processed = 0
  /\ added = 0
  /\ skipped = 0
  /\ removed = 0
  /\ results = <<>>
  /\ last = NoTrace
  /\ fetchRequests = <<>>
  /\ itemRequests = <<>>
  /\ logs = <<>>
  /\ resultsFile = Unwritten
  /\ statsFile = Unwritten

runVars == <<config, items, processed, added, skipped, removed, results, last,
             fetchRequests, itemRequests, logs, resultsFile, statsFile>>

AvailInit ==
  /\ pc = "call"
  /\ call \in [fn : {"check_streaming_availability"},
               services : SeqsUpTo(ServicePool, MaxServices),
               resp : [Regions -> ProviderAnswers]]
  /\ ret = NoReturn
  /\ NoRun

CheckAvailability ==
  /\ pc = "call"
  /\ call.fn = "check_streaming_availability"
  /\ ret' = CheckStreamingAvailability(call.services, call.resp)
  /\ pc' = "returned"
  /\ UNCHANGED <<call, runVars>>

AvailNext == CheckAvailability

AvailSpec == AvailInit /\ [][AvailNext]_vars

\* ---------------------------------------------------------------------------
\* check_streaming_availability on longer service lists: what is requested
\* ---------------------------------------------------------------------------

MaxConfigured == 3

ConfiguredPool ==
  {Service(8, "US"), Service(9, "US"), Service(10, "DE"), LegacyService(8),
   InvalidService}

RegionAnswers ==
  {ProvidersResponse(200, TRUE, <<>>),
   ProvidersResponse(200, TRUE, <<Provider(8, "Netflix")>>),
   ProvidersResponse(200, TRUE, <<Provider(10, "Sky")>>),
   ProvidersResponse(200, FALSE, <<>>),
   ProvidersResponse(500, TRUE, <<>>),
   ProvidersResponse(0, TRUE, <<>>)}

RegionsInit ==
  /\ pc = "call"
  /\ call \in [fn : {"check_streaming_availability"},
               services : SeqsUpTo(ConfiguredPool, MaxConfigured),
               resp : [Regions -> RegionAnswers]]
  /\ ret = NoReturn
  /\ NoRun

RegionsSpec == RegionsInit /\ [][AvailNext]_vars

----------------------------------------------------------------------------
(* The list fetchers called on their own, every answer carrying up to       *)
(* MaxEntries entries per list.                                             *)

MaxEntries == 2

NM1 == <<"n", "m", "1">>

ScriptPool ==
  {ScriptObject("T", TT1), ScriptObject("T", TT2), ScriptObject("", TT1),
   ScriptObject("T", NM1)}

ScriptPage(objects) == Page(objects, <<>>, <<>>, <<>>)

\* a page holds script objects and forward matches, or reverse matches and links
Pages ==
  {Page(s, f, <<>>, <<>>) : s \in SeqsUpTo(ScriptPool, MaxEntries),
                            f \in SeqsUpTo({TT1, TT2}, MaxEntries)}
    \cup {Page(<<>>, <<>>, r, a) : r \in SeqsUpTo({TT1, TT2}, MaxEntries),
                                   a \in SeqsUpTo({TT1, TT2}, MaxEntries)}

PageAnswers ==
  {PageResponse(200, p, l) : p \in Pages, l \in BOOLEAN}
    \cup {PageResponse(404, EmptyPage, FALSE), PageResponse(0, EmptyPage, FALSE)}

ListAnswers ==
  {PageResponse(200, ScriptPage(<<ScriptObject("T", TT1)>>), FALSE),
   PageResponse(503, EmptyPage, FALSE)}

TmdbEntryPool == {TmdbEntry(1, "movie"), TmdbEntry(2, ""), BadEntry}

TmdbListAnswers ==
  {TmdbListResponse(200, TRUE, es) : es \in SeqsUpTo(TmdbEntryPool, MaxEntries)}
    \cup {TmdbListResponse(401, TRUE, <<>>), TmdbListResponse(0, TRUE, <<>>),
          TmdbListResponse(200, FALSE, <<>>)}

TraktEntryPool ==
  {TraktEntry("movie", TRUE, TT1, 1), TraktEntry("show", TRUE, None, 2),
   TraktEntry("movie", FALSE, None, 0), BadEntry}

TraktPageAnswers ==
  {TraktPage(200, TRUE, es, n) : es \in SeqsUpTo(TraktEntryPool, MaxEntries), n \in {0, 2}}
    \cup {TraktPage(500, TRUE, <<>>, 0), TraktPage(200, FALSE, <<>>, 0)}

\* the answers to the requests for page 1 and, when the list has one, page 2
TraktListAnswers ==
  {<<a>> : a \in TraktPageAnswers} \cup {<<a, b>> : a \in TraktPageAnswers, b \in TraktPageAnswers}

Call(fn, url, resp, listResp, pages) ==
  [fn |-> fn, url |-> url, resp |-> resp, listResp |-> listResp, pages |-> pages]

Fetchers == {"get_imdb_watchlist", "get_tmdb_list", "get_trakt_list"}

\* the calls of one fetcher
FetchCalls(fn) ==
  IF fn = "get_imdb_watchlist"
  THEN {Call(fn, "list", a, a, <<>>) : a \in PageAnswers}
         \cup {Call(fn, "user", a, b, <<>>) : a \in PageAnswers, b \in ListAnswers}
         \cup {Call(fn, "other", PageResponse(0, EmptyPage, FALSE),
                    PageResponse(0, EmptyPage, FALSE), <<>>)}
  ELSE IF fn = "get_tmdb_list"
  THEN {Call(fn, "", a, a, <<>>) : a \in TmdbListAnswers}
  ELSE {Call(fn, u, TmdbListResponse(0, TRUE, <<>>),
             TmdbListResponse(0, TRUE, <<>>), ps) :
          u \in {"watchlist", "custom"}, ps \in TraktListAnswers}
         \cup {Call(fn, "other", TmdbListResponse(0, TRUE, <<>>),
                    TmdbListResponse(0, TRUE, <<>>), <<>>)}

FetchInit ==
  /\ pc = "call"
  /\ \E fn \in Fetchers : call \in FetchCalls(fn)
  /\ ret = NoReturn
  /\ NoRun

RunGetImdbWatchlist ==
  /\ pc = "call"
  /\ call.fn = "get_imdb_watchlist"
  /\ ret' = GetImdbWatchlist(call.url, call.resp, call.listResp)
  /\ pc' = "returned"
  /\ UNCHANGED <<call, runVars>>

RunGetTmdbList ==
  /\ pc = "call"
  /\ call.fn = "get_tmdb_list"
  /\ ret' = GetTmdbList(call.resp)
  /\ pc' = "returned"
  /\ UNCHANGED <<call, runVars>>

RunGetTraktList ==
  /\ pc = "call"
  /\ call.fn = "get_trakt_list"
  /\ ret' = GetTraktList(call.url, call.pages)
  /\ pc' = "returned"
  /\ UNCHANGED <<call, runVars>>

FetchNext == RunGetImdbWatchlist \/ RunGetTmdbList \/ RunGetTraktList

FetchSpec == FetchInit /\ [][FetchNext]_vars

\* ---------------------------------------------------------------------------
\* add_to_plex_watchlist and remove_from_plex_watchlist called on their own
\* ---------------------------------------------------------------------------

MaxCandidates == 2

TT12 == <<"t", "t", "1", "2">>

CandidatePool ==
  {Verified, NameOnly,
   Candidate(5, 200, <<ImdbGuid(TT12)>>),
   Candidate(0, 200, <<ImdbGuid(TT1)>>),
   Candidate(9, 404, <<ImdbGuid(TT1)>>),
   Candidate(6, 0, <<>>)}

SearchAnswers ==
  {SearchResponse(200, c) : c \in SeqsUpTo(CandidatePool, MaxCandidates)}
    \cup {SearchResponse(500, <<>>), SearchResponse(0, <<>>)}

PutAnswers == {200, 204, 404, 500, 0}

PlexInit ==
  /\ pc = "call"
  /\ call \in [fn : {"add_to_plex_watchlist", "remove_from_plex_watchlist"},
               imdb_id : {TT1},
               queries : SearchAnswers \X SearchAnswers]
  /\ ret = NoReturn
  /\ NoRun

CallAddToPlexWatchlist ==
  /\ pc = "call"
  /\ call.fn = "add_to_plex_watchlist"
  /\ \E put \in PutAnswers :
       ret' = AddToPlexWatchlist(call.imdb_id, [queries |-> call.queries, put |-> put])
  /\ pc' = "returned"
  /\ UNCHANGED <<call, runVars>>

CallRemoveFromPlexWatchlist ==
  /\ pc = "call"
  /\ call.fn = "remove_from_plex_watchlist"
  /\ \E put \in PutAnswers :
       ret' = RemoveFromPlexWatchlist(call.imdb_id, [queries |-> call.queries, put |-> put])
  /\ pc' = "returned"
  /\ UNCHANGED <<call, runVars>>

PlexNext == CallAddToPlexWatchlist \/ CallRemoveFromPlexWatchlist

PlexSpec == PlexInit /\ [][PlexNext]_vars

\* ---------------------------------------------------------------------------
\* add_log called again and again by one caller
\* ---------------------------------------------------------------------------

MaxLogged == 105

\* call.logged: the entries passed to add_log so far, oldest first
LogInit ==
  /\ pc = "call"
  /\ call = [fn |-> "add_log", logged |-> <<>>]
  /\ ret = NoReturn
  /\ NoRun

LogEntry(n) == Entry(IF n % 2 = 0 THEN "info" ELSE "error", n)

CallAddLog ==
  /\ pc = "call"
  /\ call.fn = "add_log"
  /\ Len(call.logged) < MaxLogged
  /\ logs' = AddLog(logs, LogEntry(Len(call.logged) + 1))
  /\ call' = [call EXCEPT !.logged = Append(@, LogEntry(Len(call.logged) + 1))]
  /\ UNCHANGED <<pc, ret, config, items, processed, added, skipped, removed, results,
                 last, fetchRequests, itemRequests, resultsFile, statsFile>>

LogNext == CallAddLog

LogSpec == LogInit /\ [][LogNext]_vars

\* ---------------------------------------------------------------------------
\* Runs of sync_watchlist on several threads, each logging through add_log.
\* Run 1 is the one of the scheduler thread, the others are started by
\* trigger_sync.  A run is reduced to its add_log calls, and a call to its
\* two accesses to the log file: the read and the rewrite.
\* ---------------------------------------------------------------------------

MaxRuns == 2
MaxRunLogs == 2

Runs == 1..MaxRuns

IdleRun == [at |-> "idle", n |-> 0, local |-> <<>>]

\* a run that starts only while no other run is in progress
MayStartAlone(runs, r) == \A q \in DOMAIN runs : runs[q].at \in {"idle", "done"}

\* Thread(target=sync_watchlist).start(), schedule.run_pending(): no test of
\* the runs in progress
MayStart(runs, r) == TRUE

\* ret.written: the entries in the order of their rewrites of the file;
\* ret.overlapped: some rewrite started from a list read before another rewrite
ConcInit ==
  /\ pc = "call"
  /\ call = [fn |-> "sync_watchlist", runs |-> [r \in Runs |-> IdleRun]]
  /\ ret = [fn |-> "add_log", written |-> <<>>, overlapped |-> FALSE]
  /\ NoRun

noLogVars == <<pc, config, items, processed, added, skipped, removed, results, last,
               fetchRequests, itemRequests, resultsFile, statsFile>>

StartRun(r) ==
  /\ call.fn = "sync_watchlist"
  /\ call.runs[r].at = "idle"
  /\ MayStart(call.runs, r)
  /\ call' = [call EXCEPT !.runs[r].at = "add_log"]
  /\ UNCHANGED <<logs, ret, noLogVars>>

ScheduledSync == StartRun(1)

TriggerSync == \E r \in Runs \ {1} : StartRun(r)

\* lines 64-67: logs = json.load(f)
ReadLogs(r) ==
  /\ call.fn = "sync_watchlist"
  /\ call.runs[r].at = "add_log"
  /\ call' = [call EXCEPT !.runs[r].at = "rewrite", !.runs[r].local = logs]
  /\ UNCHANGED <<logs, ret, noLogVars>>

RunEntry(r, n) == Entry("info", <<r, n>>)

\* lines 69-78: insert, cut, json.dump(logs, f)
RewriteLogs(r) ==
  /\ call.fn = "sync_watchlist"
  /\ call.runs[r].at = "rewrite"
  /\ logs' = AddLog(call.runs[r].local, RunEntry(r, call.runs[r].n + 1))
  /\ ret' = [ret EXCEPT !.written = Append(@, RunEntry(r, call.runs[r].n + 1)),
                        !.overlapped = @ \/ call.runs[r].local # logs]
  /\ call' = [call EXCEPT !.runs[r].n = @ + 1,
                          !.runs[r].local = <<>>,
                          !.runs[r].at = IF call.runs[r].n + 1 = MaxRunLogs
                                         THEN "done" ELSE "add_log"]
  /\ UNCHANGED noLogVars

ConcNext ==
  \/ ScheduledSync
  \/ TriggerSync
  \/ \E r \in Runs : ReadLogs(r)
  \/ \E r \in Runs : RewriteLogs(r)

ConcSpec == ConcInit /\ [][ConcNext]_vars

\* ---------------------------------------------------------------------------
\* get_plex_watchlist: one action per turn of its  while True  loop
\* ---------------------------------------------------------------------------

MaxRequests == 3
MaxPageItems == 1
MaxTotalSize == 2

\* a watchlist item by what each extraction method finds in it: the part of
\* 'guid' after imdb://, the first imdb:// or tt entry of 'Guid', the
\* tt<digits> match in 'key' (None where the method finds nothing)
WatchlistEntry(guid, guids, key, rating_key) ==
  [guid |-> guid, guids |-> guids, key |-> key, rating_key |-> rating_key]

\* Methods 1 to 3, the first hit wins
ExtractedImdbId(item) ==
  IF Truthy(item.guid) THEN item.guid
  ELSE IF Truthy(item.guids) THEN item.guids
  ELSE item.key

\* if not imdb_id.startswith('tt'): imdb_id = 'tt' + imdb_id
CleanImdbId(id) == IF StartsWithTT(id) THEN id ELSE <<"t", "t">> \o id

WatchlistItem(item) ==
  [imdb_id |-> IF Truthy(ExtractedImdbId(item)) THEN CleanImdbId(ExtractedImdbId(item))
               ELSE None,
   rating_key |-> item.rating_key]

WatchlistItems(metadata) == [i \in 1..Len(metadata) |-> WatchlistItem(metadata[i])]

\* status 0: the request raised; json FALSE: the body is not JSON;
\* container FALSE: no MediaContainer; size, total_size: the reported
\* 'size' and 'totalSize', 0 when absent
WatchlistResponse(status, json, container, metadata, size, total_size) ==
  [status |-> status, json |-> json, container |-> container, metadata |-> metadata,
   size |-> size, total_size |-> total_size]

WatchlistEntryPool ==
  {WatchlistEntry(<<"1">>, None, None, 7),
   WatchlistEntry(None, TT2, TT1, 8),
   WatchlistEntry(None, None, None, 9)}

WatchlistAnswers ==
  {WatchlistResponse(200, TRUE, TRUE, m, size, total) :
     m \in SeqsUpTo(WatchlistEntryPool, MaxPageItems),
     size \in 0..MaxPageItems, total \in 0..MaxTotalSize}
    \cup {WatchlistResponse(200, TRUE, FALSE, <<>>, 0, 0),
          WatchlistResponse(200, FALSE, FALSE, <<>>, 0, 0),
          WatchlistResponse(500, TRUE, FALSE, <<>>, 0, 0),
          WatchlistResponse(0, TRUE, FALSE, <<>>, 0, 0)}

WatchlistFailed(status) ==
  <<Entry("error", "Failed to fetch Plex watchlist"), Entry("error", "Response")>>

\* the loop goes on: next offset, items so far, requests so far
Continued(c, resp) ==
  [c EXCEPT !.offset = @ + resp.size,
            !.all_items = @ \o WatchlistItems(resp.metadata),
            !.reqs = Append(@, Req("plex_watchlist", c.offset, resp.status)),
            !.logs = @]

\* break, then return all_items
Broke(c, resp, its, lgs) ==
  [items |-> its, reqs |-> Append(c.reqs, Req("plex_watchlist", c.offset, resp.status)),
   logs |-> c.logs \o lgs, raised |-> FALSE]

\* except Exception: two error-level entries, return []
WatchlistRaised(c, resp) ==
  [items |-> <<>>, reqs |-> Append(c.reqs, Req("plex_watchlist", c.offset, resp.status)),
   logs |-> c.logs \o <<Entry("error", "Error fetching Plex watchlist"),
                        Entry("error", "Traceback")>>,
   raised |-> FALSE]

\* whether this turn leaves the loop
LeavesLoop(c, resp) ==
  \/ resp.status # 200
  \/ ~resp.json
  \/ ~resp.container
  \/ resp.metadata = <<>>
  \/ c.offset + resp.size >= resp.total_size

\* what get_plex_watchlist returns when this turn leaves the loop
WatchlistReturn(c, resp) ==
  IF resp.status = 0 THEN WatchlistRaised(c, resp)
  ELSE IF resp.status # 200 THEN Broke(c, resp, c.all_items, WatchlistFailed(resp.status))
  ELSE IF ~resp.json THEN WatchlistRaised(c, resp)
  ELSE IF ~resp.container
  THEN Broke(c, resp, c.all_items, <<Entry("warning", "No MediaContainer in response")>>)
  ELSE IF resp.metadata = <<>> THEN Broke(c, resp, c.all_items, <<>>)
  ELSE Broke(c, resp, c.all_items \o WatchlistItems(resp.metadata), <<>>)

WatchlistInit ==
  /\ pc = "loop"
  /\ call = [fn |-> "get_plex_watchlist", offset |-> 0, all_items |-> <<>>,
             reqs |-> <<>>, logs |-> <<>>]
  /\ ret = NoReturn
  /\ NoRun

\* a turn that ends with the next request still to come
RequestPage ==
  /\ pc = "loop"
  /\ call.fn = "get_plex_watchlist"
  /\ Len(call.reqs) < MaxRequests
  /\ \E resp \in WatchlistAnswers :
       /\ ~LeavesLoop(call, resp)
       /\ call' = Continued(call, resp)
  /\ UNCHANGED <<pc, ret, runVars>>

\* a turn that ends the loop and the function
RequestLastPage ==
  /\ pc = "loop"
  /\ call.fn = "get_plex_watchlist"
  /\ Len(call.reqs) < MaxRequests
  /\ \E resp \in WatchlistAnswers :
       /\ LeavesLoop(call, resp)
       /\ ret' = WatchlistReturn(call, resp)
  /\ pc' = "returned"
  /\ UNCHANGED <<call, runVars>>

WatchlistNext == RequestPage \/ RequestLastPage

WatchlistSpec == WatchlistInit /\ [][WatchlistNext]_vars

\* ---------------------------------------------------------------------------
\* get_trakt_list: one action per turn of its  while True  loop, the server
\* answering each request as it likes
\* ---------------------------------------------------------------------------

MaxPageCount == 3

TraktContents ==
  {<<>>,
   <<TraktEntry("movie", TRUE, TT1, 1)>>,
   <<TraktEntry("show", TRUE, None, 2), TraktEntry("movie", TRUE, TT2, 0)>>,
   <<TraktEntry("movie", FALSE, None, 0)>>,
   <<TraktEntry("movie", TRUE, TT1, 1), BadEntry>>}

TraktLoopAnswers ==
  {TraktPage(200, TRUE, e, n) : e \in TraktContents, n \in 0..MaxPageCount}
    \cup {TraktPage(500, TRUE, <<>>, 0), TraktPage(0, TRUE, <<>>, 0),
          TraktPage(200, FALSE, <<>>, 0)}

\* a page after which one more is requested although it is the last one
LastTraktPageLate(page, r) == r.entries = <<>> \/ page > TotalPages(r)

\* lines 489 and 514: if not entries: break; if page >= total_pages: break
LastTraktPage(page, r) == r.entries = <<>> \/ page >= TotalPages(r)

\* lines 485-511: the request, raise_for_status, json and the mapping
TraktTurn(acc, page, r) ==
  IF RaisesForStatus(r.status) \/ ~r.json
  THEN [Sent(acc, Req("trakt_page", page, r.status)) EXCEPT !.failed = TRUE]
  ELSE MapTraktEntries(r.entries, Sent(acc, Req("trakt_page", page, r.status)))

TraktLeaves(acc, page, r) == TraktTurn(acc, page, r).failed \/ LastTraktPage(page, r)

\* call.answers: the responses received so far, in order
TraktLoopInit ==
  /\ pc = "loop"
  /\ call = [fn |-> "get_trakt_list", page |-> 1,
             acc |-> [items |-> <<>>, reqs |-> <<>>, failed |-> FALSE],
             answers |-> <<>>]
  /\ ret = NoReturn
  /\ NoRun

\* a turn followed by  page += 1
RequestTraktPage ==
  /\ pc = "loop"
  /\ call.fn = "get_trakt_list"
  /\ \E r \in TraktLoopAnswers :
       /\ ~TraktLeaves(call.acc, call.page, r)
       /\ call' = [call EXCEPT !.page = @ + 1,
                               !.acc = TraktTurn(call.acc, call.page, r),
                               !.answers = Append(@, r)]
  /\ UNCHANGED <<pc, ret, runVars>>

\* a turn that breaks or raises, and the return
RequestLastTraktPage ==
  /\ pc = "loop"
  /\ call.fn = "get_trakt_list"
  /\ \E r \in TraktLoopAnswers :
       /\ TraktLeaves(call.acc, call.page, r)
       /\ ret' = TraktReturned(TraktTurn(call.acc, call.page, r))
       /\ call' = [call EXCEPT !.answers = Append(@, r)]
  /\ pc' = "returned"
  /\ UNCHANGED runVars

TraktLoopNext == RequestTraktPage \/ RequestLastTraktPage

\* every request carries a timeout, so a turn of the loop always completes
TraktLoopSpec == TraktLoopInit /\ [][TraktLoopNext]_vars /\ WF_vars(TraktLoopNext)

\* ---------------------------------------------------------------------------
\* scrape_watchlist_page called on its own, on pages around the threshold
\* ---------------------------------------------------------------------------

DigitChars == <<"0", "1", "2", "3", "4", "5", "6", "7", "8", "9">>

\* the id tt<two digits> of number n
TitleId(n) == <<"t", "t", DigitChars[(n \div 10) + 1], DigitChars[(n % 10) + 1]>>

\* a script tag holding n titles, tt01 to tt<n>
ScriptOf(n) == [i \in 1..n |-> ScriptObject("T", TitleId(i))]

ScriptSizes == {0, 1, Sufficient - 2, Sufficient - 1, Sufficient}

\* what a regex or the link search finds: tt01 is also in every script tag
MatchLists ==
  {<<>>, <<TitleId(1)>>, <<TitleId(99)>>, <<TitleId(1), TitleId(99)>>,
   <<TitleId(98), TitleId(99)>>, <<TitleId(99), TitleId(99)>>}

ScrapePages ==
  {Page(ScriptOf(n), f, r, a) : n \in ScriptSizes, f \in MatchLists, r \in MatchLists,
                                a \in MatchLists}

ScrapeInit ==
  /\ pc = "call"
  /\ call \in [fn : {"scrape_watchlist_page"}, page : ScrapePages]
  /\ ret = NoReturn
  /\ NoRun

CallScrapeWatchlistPage ==
  /\ pc = "call"
  /\ call.fn = "scrape_watchlist_page"
  /\ ret' = ScrapeWatchlistPage(call.page)
  /\ pc' = "returned"
  /\ UNCHANGED <<call, runVars>>

ScrapeNext == CallScrapeWatchlistPage

ScrapeSpec == ScrapeInit /\ [][ScrapeNext]_vars

----------------------------------------------------------------------------
(* Properties of sync_watchlist.  In a state with processed > 0 and         *)
(* Len(results) = processed the latest iteration appended results[processed],*)
(* itemRequests holds its outbound requests and last what its availability  *)
(* check returned.                                                          *)

RequestsOf(kind) == SelectSeq(itemRequests, LAMBDA r : r.kind = kind)

PlexRequests == SelectSeq(itemRequests, LAMBDA r : r.kind \in {"search", "metadata",
                                                              "addToWatchlist",
                                                              "removeFromWatchlist"})

\* the latest iteration ran to its end or to a continue
Iterated == pc \in {"loop", "done"} /\ processed > 0 /\ Len(results) = processed

LatestResult == results[processed]

Incomplete(c) ==
  \/ c.plexToken = ""
  \/ c.tmdbApiKey = ""
  \/ c.listSource = "imdb" /\ c.imdbListUrl = ""
  \/ c.listSource = "tmdb" /\ c.tmdbListId = ""
  \/ c.listSource = "trakt" /\ (c.traktListUrl = "" \/ c.traktApiKey = "")

\* C2: with plexToken or tmdbApiKey empty, or the identifier of the selected
\* source empty, sync_watchlist returns before fetching: no outbound request,
\* no item processed, neither store written, and one error log entry as its
\* only effect.
AbortsBeforeFetching ==
  (Incomplete(config) /\ pc # "start") =>
    /\ pc = "rejected"
    /\ fetchRequests = <<>>
    /\ itemRequests = <<>>
    /\ items = <<>>
    /\ processed = 0
    /\ results = <<>>
    /\ resultsFile = Unwritten
    /\ statsFile = Unwritten
    /\ Len(logs) = 1
    /\ logs[1].type = "error"

\* a Trakt configuration with its URL and without its API key was rejected
RejectedTraktWithoutKey ==
  /\ pc = "rejected"
  /\ config.listSource = "trakt"
  /\ config.plexToken # ""
  /\ config.tmdbApiKey # ""
  /\ config.traktListUrl # ""
  /\ config.traktApiKey = ""

\* C3: an addToWatchlist request is issued only for an item whose
\* availability check returned not available, a removeFromWatchlist request
\* only for one whose check returned available, and an item gets at most one
\* of the two requests.
MutationFollowsAvailability ==
  /\ RequestsOf("addToWatchlist") # <<>> => last.checked /\ ~last.available
  /\ RequestsOf("removeFromWatchlist") # <<>> => last.checked /\ last.available
  /\ Len(RequestsOf("addToWatchlist")) + Len(RequestsOf("removeFromWatchlist")) <= 1

\* the second item of a run was found on streaming and a remove request sent for it
RemoveRequestedForAvailable ==
  /\ processed = 2
  /\ last.checked
  /\ last.available
  /\ Len(RequestsOf("removeFromWatchlist")) = 1
  /\ RequestsOf("addToWatchlist") = <<>>

\* C4 as stated: every item the availability check reports available gets a
\* remove attempt and ends removed or skipped, and the reverse imdb_id lookup
\* is made only for items that are not available.
AvailableAlwaysRemoved ==
  (Iterated /\ last.checked /\ last.available) =>
    /\ last.attempted = "remove"
    /\ LatestResult.status \in {"removed", "skipped"}
    /\ RequestsOf("external_ids") = <<>>

\* C4, amended: the reverse lookup is made for every item without an imdb_id
\* that reaches the availability check, available or not; an available item
\* with an imdb_id gets a remove attempt and ends removed when the remove
\* request is answered 200 or 204 and skipped otherwise (skipped too when the
\* search finds no match); an available item left without an imdb_id fails
\* with 'No IMDB ID available' and no Plex request.
AvailableRemovedWhenIdentified ==
  /\ (Iterated /\ last.checked) =>
       (RequestsOf("external_ids") # <<>> <=> ~Truthy(items[processed].imdb_id))
  /\ (Iterated /\ last.checked /\ last.available /\ Truthy(last.imdb_id)) =>
       /\ last.attempted = "remove"
       /\ RequestsOf("search") # <<>>
       /\ LatestResult.status =
            IF \E i \in 1..Len(itemRequests) :
                 /\ itemRequests[i].kind = "removeFromWatchlist"
                 /\ itemRequests[i].status \in {200, 204}
            THEN "removed" ELSE "skipped"
       /\ LatestResult.streaming_services # <<>>
  /\ (Iterated /\ last.checked /\ last.available /\ ~Truthy(last.imdb_id)) =>
       /\ last.attempted = "none"
       /\ PlexRequests = <<>>
       /\ LatestResult.status = "failed"
       /\ LatestResult.error = "No IMDB ID available"

\* an available item whose Plex search found no match ended skipped
SkippedWithoutMatch ==
  /\ Iterated
  /\ last.checked
  /\ last.available
  /\ last.attempted = "remove"
  /\ RequestsOf("search") # <<>>
  /\ RequestsOf("removeFromWatchlist") = <<>>
  /\ LatestResult.status = "skipped"

\* C5: an item the availability check reports not available (a failed check
\* included) gets an add attempt with its resolved imdb_id; it ends added
\* exactly when the addToWatchlist request for the verified match is answered
\* 200 or 204 and failed with an error otherwise; with no imdb_id resolved it
\* ends failed with no add attempt.
UnavailableAddedOrFailed ==
  /\ (Iterated /\ last.checked /\ ~last.available /\ Truthy(last.imdb_id)) =>
       /\ last.attempted = "add"
       /\ LatestResult.imdb_id = last.imdb_id
       /\ \A i \in 1..Len(itemRequests) :
            itemRequests[i].kind = "addToWatchlist" =>
              itemRequests[i].key = Verified.rating_key
       /\ LatestResult.status = "added" <=>
            \E i \in 1..Len(itemRequests) :
              /\ itemRequests[i].kind = "addToWatchlist"
              /\ itemRequests[i].status \in {200, 204}
       /\ LatestResult.status # "added" =>
            LatestResult.status = "failed" /\ LatestResult.error # NoError
  /\ (Iterated /\ last.checked /\ ~last.available /\ ~Truthy(last.imdb_id)) =>
       /\ last.attempted = "none"
       /\ PlexRequests = <<>>
       /\ LatestResult.status = "failed"
       /\ LatestResult.error # NoError

\* an item whose availability check failed was added on a 204 answer
AddedOn204 ==
  /\ Iterated
  /\ last.checked
  /\ ~last.available
  /\ \E i \in 1..Len(itemRequests) :
       itemRequests[i].kind = "providers" /\ itemRequests[i].status = 500
  /\ \E i \in 1..Len(itemRequests) :
       itemRequests[i].kind = "addToWatchlist" /\ itemRequests[i].status = 204
  /\ LatestResult.status = "added"

\* C6: every result of the persisted list has one of the five statuses, and
\* every failed one carries an error.
PersistedStatusesValid ==
  resultsFile.written =>
    \A i \in 1..Len(resultsFile.data) :
      /\ resultsFile.data[i].status \in {"processing", "added", "skipped", "removed", "failed"}
      /\ resultsFile.data[i].status = "failed" => resultsFile.data[i].error # NoError

\* a persisted list holding a failure of each kind next to a removal
PersistedFailures ==
  /\ resultsFile.written
  /\ \E i \in 1..Len(resultsFile.data) :
       /\ resultsFile.data[i].status = "failed"
       /\ resultsFile.data[i].error = "No IMDB ID available"
  /\ \E i \in 1..Len(resultsFile.data) : resultsFile.data[i].status = "removed"

\* C7: when the fetcher of the selected source returns an empty list the run
\* logs a warning and ends with nothing processed: no request for an item, no
\* result, and a results store holding no result of this run.
EmptyFetchEndsRun ==
  (pc \in {"no_items", "loop", "done", "crashed"} /\ items = <<>>) =>
    /\ pc = "no_items"
    /\ logs # <<>>
    /\ logs[1].type = "warning"
    /\ processed = 0
    /\ itemRequests = <<>>
    /\ results = <<>>
    /\ ~resultsFile.written \/ resultsFile.data = <<>>
    /\ statsFile = Unwritten

\* a fetch whose request was answered returned no item and the run ended
EndedOnEmptyFetch ==
  /\ pc = "no_items"
  /\ fetchRequests # <<>>
  /\ fetchRequests[1].status = 200
  /\ items = <<>>

----------------------------------------------------------------------------
(* Properties of the list fetchers, in the states where one has returned *)

ReturnedIds == [i \in 1..Len(ret.items) |-> ret.items[i].imdb_id]

\* C8: in the list a fetcher returns every imdb_id is null or matches
\* ^tt\d+$, and no two items share a non-null imdb_id.
FetchedIdsValidAndUnique ==
  pc = "returned" =>
    /\ \A i \in 1..Len(ReturnedIds) :
         ReturnedIds[i] = None \/ MatchesTTDigits(ReturnedIds[i])
    /\ \A i, j \in 1..Len(ReturnedIds) :
         (i # j /\ ReturnedIds[i] = ReturnedIds[j]) => ReturnedIds[i] = None

Malformed(entries) == \E i \in 1..Len(entries) : entries[i].kind # "dict"

BadAnswer(r) == r.status = 0 \/ r.status >= 300 \/ ~r.json

\* a request of the call failed, or an answer it read was malformed
FetchFailure ==
  \/ /\ call.fn = "get_tmdb_list"
     /\ BadAnswer(call.resp) \/ Malformed(call.resp.entries)
  \/ /\ call.fn = "get_trakt_list"
     /\ \E p \in 1..Len(ret.reqs) :
          p <= Len(call.pages) /\ (BadAnswer(call.pages[p]) \/ Malformed(call.pages[p].entries))
  \/ /\ call.fn = "get_imdb_watchlist"
     /\ \E i \in 1..Len(ret.reqs) : ret.reqs[i].status # 200

\* C9: a fetcher never raises, and when a request or an answer of the fetch
\* fails, on the first page or a later page or entry, it returns the empty
\* list and logs the failure.
FetchFailureReturnsEmpty ==
  pc = "returned" =>
    /\ ~ret.raised
    /\ FetchFailure =>
         /\ ret.items = <<>>
         /\ \E i \in 1..Len(ret.logs) : ret.logs[i].type \in {"error", "warning"}

----------------------------------------------------------------------------
(* Properties of check_streaming_availability, in the states where it has   *)
(* returned                                                                 *)

\* the service is configured for the region (a bare integer: for US)
ConfiguredFor(service, region) ==
  \/ service.kind = "dict" /\ service.region = region
  \/ service.kind = "int" /\ region = "US"

\* the provider at position i of the region's flatrate list carries the id
\* of a service configured for that region
Offered(region, i) ==
  /\ call.resp[region].flatrate[i].kind = "dict"
  /\ \E k \in 1..Len(call.services) :
       /\ ConfiguredFor(call.services[k], region)
       /\ call.services[k].id = call.resp[region].flatrate[i].provider_id

ExpectedLabels ==
  UNION {{ServiceName(call.resp[region].flatrate[i].provider_name, region) :
            i \in {j \in 1..Len(call.resp[region].flatrate) : Offered(region, j)}} :
         region \in Regions}

\* C10: when every watch-providers request succeeds the labels returned are,
\* without duplicates, "<provider name> (<region>)" for exactly the providers
\* of a region's flatrate list whose id is that of a service configured for
\* the same region, and available is true exactly when there is a label.
LabelsAreConfiguredMatches ==
  (pc = "returned" /\ \A i \in 1..Len(ret.reqs) : ret.reqs[i].status = 200) =>
    /\ SeqToSet(ret.providers) = ExpectedLabels
    /\ Cardinality(SeqToSet(ret.providers)) = Len(ret.providers)
    /\ ret.available <=> ret.providers # <<>>

\* Netflix offered in US and DE with service 8 configured twice for US and
\* not for DE: (True, ["Netflix (US)"])
NetflixUSOnly ==
  /\ pc = "returned"
  /\ call.services = <<Service(8, "US"), LegacyService(8)>>
  /\ call.resp["US"].flatrate = <<Provider(8, "Netflix")>>
  /\ call.resp["DE"].flatrate = <<Provider(8, "Netflix")>>
  /\ ret.available
  /\ ret.providers = <<"Netflix (US)">>


\* ---------------------------------------------------------------------------
\* The availability check: requests per region, failures, legacy entries
\* ---------------------------------------------------------------------------

\* the regions named by the validly formed entries of the called services
ValidRegions == {ServiceRegion(s) : s \in {x \in SeqToSet(call.services) : IsService(x)}}

NoDuplicates(s) == \A i, j \in 1..Len(s) : s[i] = s[j] => i = j

FailedRequest(r) == r.status = 0 \/ r.status < 200 \/ r.status >= 300

AnyFailedRequest == \E i \in 1..Len(ret.reqs) : FailedRequest(ret.reqs[i])

\* C11 as stated: one availability check issues exactly one watch-providers
\* request per distinct region among the validly formed configured services.
OneRequestPerValidRegion ==
  pc = "returned" =>
    /\ Len(ret.reqs) = Cardinality(ValidRegions)
    /\ SeqToSet(ret.regions) = ValidRegions
    /\ NoDuplicates(ret.regions)

\* C11 amended: a check requests no region twice and only regions of validly
\* formed services, one request per looked-up region; it requests every such
\* region exactly once unless a request failed, and a failed request is the
\* last one of the check; no valid service means no request.
OneRequestPerRegionUntilFailure ==
  pc = "returned" =>
    /\ Len(ret.reqs) = Len(ret.regions)
    /\ NoDuplicates(ret.regions)
    /\ SeqToSet(ret.regions) \subseteq ValidRegions
    /\ \A i \in 1..Len(ret.reqs) : ret.reqs[i].kind = "providers"
    /\ \A i \in 1..Len(ret.reqs) :
         (FailedRequest(ret.reqs[i]) \/ ~call.resp[ret.regions[i]].json) => i = Len(ret.reqs)
    /\ (~AnyFailedRequest /\ \A r \in SeqToSet(ret.regions) : call.resp[r].json)
         => SeqToSet(ret.regions) = ValidRegions
    /\ ValidRegions = {} => ret.reqs = <<>>

\* three services in two regions, both requests answered: two requests
ThreeServicesTwoRequests ==
  /\ pc = "returned"
  /\ call.services = <<Service(8, "US"), Service(9, "US"), Service(10, "DE")>>
  /\ ret.regions = <<"US", "DE">>
  /\ Len(ret.reqs) = 2
  /\ ~AnyFailedRequest
  /\ ret.available


\* C12: if any watch-providers request of a check fails (raises or answers
\* with a non-2xx status), the check returns exactly (false, []) and does not
\* raise, whatever was matched in the regions looked up before.
FailedRequestReturnsNothing ==
  (pc = "returned" /\ AnyFailedRequest) =>
    /\ ret.available = FALSE
    /\ ret.providers = <<>>
    /\ ~ret.raised

\* Netflix matched in US, then the DE request failed: the match is dropped
MatchDroppedOnLaterFailure ==
  /\ pc = "returned"
  /\ call.services = <<Service(8, "US"), Service(10, "DE")>>
  /\ call.resp["US"] = ProvidersResponse(200, TRUE, <<Provider(8, "Netflix")>>)
  /\ ret.regions = <<"US", "DE">>
  /\ FailedRequest(ret.reqs[2])
  /\ Entry("success", "MATCH") \in SeqToSet(ret.logs)
  /\ ret.available = FALSE
  /\ ret.providers = <<>>


\* the services list with every bare integer n rewritten as {id: n, region: 'US'}
Structured(services) ==
  [i \in 1..Len(services) |->
     IF services[i].kind = "int" THEN Service(services[i].id, "US") ELSE services[i]]

SameOutcome(a, b) ==
  /\ a.available = b.available
  /\ a.providers = b.providers
  /\ SeqToSet(a.regions) = SeqToSet(b.regions)
  /\ a.reqs = b.reqs

InvalidWarnings(lgs) ==
  Len(SelectSeq(lgs, LAMBDA e : e = Entry("warning", "Invalid service format")))

\* C13: rewriting the bare integers of streamingServices as structured 'US'
\* entries changes neither the (available, labels) result nor the regions
\* looked up, for every response; an entry that is neither integer nor object
\* is skipped with one warning and the check gives the result it gives
\* without that entry, without raising.
LegacyEntriesMeanUS ==
  pc = "returned" =>
    /\ SameOutcome(ret, CheckStreamingAvailability(Structured(call.services), call.resp))
    /\ SameOutcome(ret, CheckStreamingAvailability(SelectSeq(call.services, IsService),
                                                   call.resp))
    /\ InvalidWarnings(ret.logs) = Len(SelectSeq(call.services, IsNoService))
    /\ ~ret.raised

\* a bare 8 next to an invalid entry: Netflix is matched in US, with a warning
LegacyServiceMatchedInUS ==
  /\ pc = "returned"
  /\ call.services = <<InvalidService, LegacyService(8)>>
  /\ ret.regions = <<"US">>
  /\ ret.providers = <<"Netflix (US)">>
  /\ InvalidWarnings(ret.logs) = 1


\* ---------------------------------------------------------------------------
\* add and remove on the Plex watchlist
\* ---------------------------------------------------------------------------

ActionKinds == {"addToWatchlist", "removeFromWatchlist"}

ActionRequests == SelectSeq(ret.reqs, LAMBDA r : r.kind \in ActionKinds)

\* the candidates in scanning order: the answered queries in order, each with
\* its items in response order
Scanned ==
  (IF call.queries[1].status = 200 THEN call.queries[1].cands ELSE <<>>)
    \o (IF call.queries[2].status = 200 THEN call.queries[2].cands ELSE <<>>)

Verifies(c) ==
  /\ c.rating_key # 0
  /\ c.meta_status = 200
  /\ \E g \in SeqToSet(c.guids) : IsSubstring(call.imdb_id, g)

FirstVerifiedKey ==
  IF SelectSeq(Scanned, Verifies) = <<>> THEN 0
  ELSE SelectSeq(Scanned, Verifies)[1].rating_key

\* C14: add and remove send their watchlist action only with the rating key
\* of the first scanned candidate whose fetched metadata has a GUID containing
\* the requested imdb_id; a candidate matching by name only never receives an
\* action; when no candidate verifies no action is sent and the operation
\* returns false.
ActionOnlyOnVerifiedKey ==
  pc = "returned" =>
    /\ Len(ActionRequests) <= 1
    /\ \A i \in 1..Len(ret.reqs) :
         ret.reqs[i].kind \in ActionKinds =>
           /\ i = Len(ret.reqs)
           /\ ret.reqs[i].key # 0
           /\ ret.reqs[i].key = FirstVerifiedKey
           /\ \E j \in 1..(i - 1) : ret.reqs[j] = Req("metadata", ret.reqs[i].key, 200)
           /\ ret.reqs[i].kind = (IF call.fn = "add_to_plex_watchlist"
                                  THEN "addToWatchlist" ELSE "removeFromWatchlist")
    /\ \A c \in SeqToSet(Scanned) :
         ~Verifies(c) => \A r \in SeqToSet(ActionRequests) : r.key # c.rating_key
    /\ FirstVerifiedKey = 0 => (ActionRequests = <<>> /\ ~ret.ok)
    /\ ret.ok => ActionRequests # <<>>

\* the name-only candidate comes first, the verified one gets the add request
AddSentToVerifiedAfterNameOnly ==
  /\ pc = "returned"
  /\ call.fn = "add_to_plex_watchlist"
  /\ call.queries[1] = SearchResponse(200, <<NameOnly, Verified>>)
  /\ ActionRequests = <<Req("addToWatchlist", Verified.rating_key, 204)>>
  /\ ret.ok


ErrorLogged == \E e \in SeqToSet(ret.logs) : e.type = "error"

\* C15: remove returns true exactly when a verified match exists and the
\* removeFromWatchlist request is answered 200 or 204; a 404 answer makes it
\* return false without an error-level log entry; every other answer outside
\* 200/204, a raising request included, makes it return false with an
\* error-level log entry; remove never raises.
RemoveOutcomeFollowsAnswer ==
  (pc = "returned" /\ call.fn = "remove_from_plex_watchlist") =>
    /\ ret.ok <=> /\ FirstVerifiedKey # 0
                  /\ ActionRequests # <<>>
                  /\ ActionRequests[Len(ActionRequests)].status \in {200, 204}
    /\ \A r \in SeqToSet(ActionRequests) :
         /\ r.status = 404 => (~ret.ok /\ ~ErrorLogged)
         /\ r.status \notin {200, 204, 404} => (~ret.ok /\ ErrorLogged)
         /\ r.status \in {200, 204} => ~ErrorLogged
    /\ ~ret.raised

\* the verified title is not on the watchlist: false, and nothing logged as error
RemoveAnswered404 ==
  /\ pc = "returned"
  /\ call.fn = "remove_from_plex_watchlist"
  /\ ActionRequests = <<Req("removeFromWatchlist", Verified.rating_key, 404)>>
  /\ ~ret.ok
  /\ ~ErrorLogged


\* ---------------------------------------------------------------------------
\* The log store
\* ---------------------------------------------------------------------------

Smaller(a, b) == IF a <= b THEN a ELSE b

\* C16: after n add_log calls made one at a time the store holds exactly the
\* min(n, 100) most recently logged entries, newest first, and never more
\* than 100.
StoreHoldsNewestHundred ==
  call.fn = "add_log" =>
    /\ Len(logs) = Smaller(Len(call.logged), 100)
    /\ Len(logs) <= 100
    /\ \A i \in 1..Len(logs) : logs[i] = call.logged[Len(call.logged) - i + 1]

\* 102 entries logged: the store starts with entry 102 and ends with entry 3
OldestTwoDropped ==
  /\ call.fn = "add_log"
  /\ Len(call.logged) = 102
  /\ Len(logs) = 100
  /\ logs[1].message = 102
  /\ logs[100].message = 3


InProgress(r) == call.runs[r].at \in {"add_log", "rewrite"}

Lost == SeqToSet(ret.written) \ SeqToSet(logs)

\* C17: nothing enforces one run at a time: a run that has not started can be
\* started whatever the other runs are doing; the store holds only entries
\* that were written, with the latest rewrite at its head, and an entry that
\* was written is absent from it only after a rewrite that started from a
\* list read before another rewrite (two add_log calls overlapping).  The
\* lost update itself is the reachable state LostUpdate.
RunsUnguardedAndLossOnlyByOverlap ==
  call.fn = "sync_watchlist" =>
    /\ \A r \in Runs : call.runs[r].at = "idle" => ENABLED StartRun(r)
    /\ SeqToSet(logs) \subseteq SeqToSet(ret.written)
    /\ ret.written # <<>> => logs[1] = ret.written[Len(ret.written)]
    /\ Lost # {} => ret.overlapped
    /\ (ret.overlapped /\ \A r \in Runs : ~InProgress(r)) => Lost # {}

\* both runs were in progress together and have finished; an entry written
\* by one of them is no longer in the store
LostUpdate ==
  /\ call.fn = "sync_watchlist"
  /\ \A r \in Runs : call.runs[r].at = "done"
  /\ Len(ret.written) = MaxRuns * MaxRunLogs
  /\ \E r \in Runs, n \in 1..MaxRunLogs : RunEntry(r, n) \in Lost


\* ---------------------------------------------------------------------------
\* Pagination
\* ---------------------------------------------------------------------------

\* the offsets requested by get_plex_watchlist so far, in order
RequestedOffsets ==
  IF pc = "returned" THEN [i \in 1..Len(ret.reqs) |-> ret.reqs[i].key]
  ELSE [i \in 1..Len(call.reqs) |-> call.reqs[i].key]

\* C18: every request of get_plex_watchlist after the first uses a strictly
\* larger offset than the one before it, so that no offset is requested twice
\* and the loop ends for every sequence of server responses.
OffsetsStrictlyIncrease ==
  call.fn = "get_plex_watchlist" =>
    \A i \in 1..(Len(RequestedOffsets) - 1) : RequestedOffsets[i] < RequestedOffsets[i + 1]


\* the pages requested by get_trakt_list so far, in order
RequestedPages ==
  IF pc = "returned" THEN [i \in 1..Len(ret.reqs) |-> ret.reqs[i].key]
  ELSE [i \in 1..Len(call.acc.reqs) |-> call.acc.reqs[i].key]

\* the page count a response reports, a missing header counting as 1
ReportedPages(r) == IF r.page_count = 0 THEN 1 ELSE r.page_count

PageFails(r) ==
  \/ r.status # 200
  \/ ~r.json
  \/ \E i \in 1..Len(r.entries) : r.entries[i].kind # "dict"

PageEnds(page, r) == r.entries = <<>> \/ page >= ReportedPages(r)

\* the entries of a page that are mapped: those holding a movie or show
\* object, up to the first entry that is no object at all
Mappable(r) ==
  IF r.status # 200 \/ ~r.json THEN <<>>
  ELSE SelectSeq(
         SubSeq(r.entries, 1,
                IF \E i \in 1..Len(r.entries) : r.entries[i].kind # "dict"
                THEN (CHOOSE i \in 1..Len(r.entries) :
                        /\ r.entries[i].kind # "dict"
                        /\ \A j \in 1..(i - 1) : r.entries[j].kind = "dict") - 1
                ELSE Len(r.entries)),
         LAMBDA e : e.obj)

MappedItems(r) ==
  [i \in 1..Len(Mappable(r)) |->
     [imdb_id |-> Mappable(r)[i].imdb, tmdb_id |-> Mappable(r)[i].tmdb,
      media_type |-> IF Mappable(r)[i].type = "show" THEN "tv" ELSE "movie"]]

RECURSIVE ItemsOfPages(_)
ItemsOfPages(answers) ==
  IF answers = <<>> THEN <<>>
  ELSE MappedItems(Head(answers)) \o ItemsOfPages(Tail(answers))

TraktPaging ==
  call.fn = "get_trakt_list" =>
    /\ RequestedPages = [i \in 1..Len(call.answers) |-> i]
    /\ Len(call.answers) <= MaxPageCount
    /\ \A i \in 1..Len(call.answers) :
         (i < Len(call.answers) \/ pc = "loop") =>
            (~PageEnds(i, call.answers[i]) /\ ~PageFails(call.answers[i]))
    /\ pc = "returned" =>
         /\ call.answers # <<>>
         /\ \/ PageEnds(Len(call.answers), call.answers[Len(call.answers)])
            \/ PageFails(call.answers[Len(call.answers)])
         /\ ret.items = ItemsOfPages(call.answers)
         /\ ~ret.raised

StrategyOrder == <<"script", "forward", "reverse", "links">>

ReturnedIdSeq == [i \in 1..Len(ret.items) |-> ret.items[i].imdb_id]

\* the strategies in their fixed order, the first one always run, the number
\* of items never shrinking and unchanged by a strategy that did not run
StrategiesInOrder ==
  /\ [i \in 1..Len(ret.steps) |-> ret.steps[i].name] = StrategyOrder
  /\ ret.steps[1].ran
  /\ \A i \in 1..3 : ret.steps[i].before <= ret.steps[i + 1].before
  /\ \A i \in 2..3 : ~ret.steps[i].ran => ret.steps[i + 1].before = ret.steps[i].before
  /\ ret.steps[4].before <= Len(ret.items)
  /\ ~ret.steps[4].ran => Len(ret.items) = ret.steps[4].before

\* C20 as stated: the extractor runs its strategies in fixed order and each
\* later strategy, the DOM traversal included, is attempted exactly when the
\* items accumulated before it are fewer than 50; no id is added twice.
EveryStrategyRunsBelowThreshold ==
  (pc = "returned" /\ call.fn = "scrape_watchlist_page") =>
    /\ StrategiesInOrder
    /\ \A i \in 2..4 : ret.steps[i].ran <=> ret.steps[i].before < 50
    /\ NoDuplicates(ReturnedIdSeq)

\* C20 amended: the extractor runs its strategies in fixed order; the two
\* regex strategies are attempted exactly when fewer than 50 items were
\* accumulated before them, the DOM traversal is attempted exactly when no
\* item at all was accumulated; no id is added twice.
LinksRunOnlyWhenNothingFound ==
  (pc = "returned" /\ call.fn = "scrape_watchlist_page") =>
    /\ StrategiesInOrder
    /\ \A i \in 2..3 : ret.steps[i].ran <=> ret.steps[i].before < 50
    /\ ret.steps[4].ran <=> ret.steps[4].before = 0
    /\ ret.steps[4].ran <=>
         Entry("warning", "JSON extraction failed, trying traditional scraping")
           \in SeqToSet(ret.logs)
    /\ NoDuplicates(ReturnedIdSeq)

\* 48 titles in the script tag, a 49th from the forward regex, none from the
\* reverse one: the links are not searched although they name new titles
LinksSkippedWithFortyNine ==
  /\ pc = "returned"
  /\ call.fn = "scrape_watchlist_page"
  /\ ret.steps[2] = Step("forward", 48, TRUE)
  /\ ret.steps[3] = Step("reverse", 49, TRUE)
  /\ ret.steps[4] = Step("links", 49, FALSE)
  /\ call.page.anchors = <<TitleId(98), TitleId(99)>>
  /\ Len(ret.items) = 49
  /\ TitleId(98) \notin SeqToSet(ReturnedIdSeq)


\* ---------------------------------------------------------------------------
\* The pause between items and the counters of a run
\* ---------------------------------------------------------------------------

\* the outbound requests among the steps of an iteration
Outbound(reqs) == SelectSeq(reqs, LAMBDA r : r.kind # "sleep")

\* C21: within one run, after the last outbound request made for an item no
\* outbound request for the next item is issued without a pause in between,
\* whatever the outcome of the first of the two.
PausedBetweenItems ==
  [][(/\ pc = "loop"
      /\ processed >= 1
      /\ processed' = processed + 1
      /\ Outbound(itemRequests) # <<>>
      /\ Outbound(itemRequests') # <<>>)
       => itemRequests[Len(itemRequests)].kind = "sleep"]_vars


WithStatus(rs, status) == Len(SelectSeq(rs, LAMBDA r : r.status = status))

\* C22: when a run persists, the persisted list holds one result per fetched
\* item in source order, so processed = length of results = number of
\* fetched items; added, skipped and removed equal the numbers of results
\* with these statuses; processed is their sum plus the number of failed
\* results; the persisted stats 'removed' is the number of persisted results
\* with status removed.
CountersMatchPersistedResults ==
  pc = "done" =>
    /\ resultsFile = Written(results)
    /\ processed = Len(items)
    /\ Len(resultsFile.data) = Len(items)
    /\ \A i \in 1..Len(items) :
         Truthy(items[i].imdb_id) => resultsFile.data[i].imdb_id = items[i].imdb_id
    /\ added = WithStatus(resultsFile.data, "added")
    /\ skipped = WithStatus(resultsFile.data, "skipped")
    /\ removed = WithStatus(resultsFile.data, "removed")
    /\ processed = added + skipped + removed + WithStatus(resultsFile.data, "failed")
    /\ statsFile.written
    /\ statsFile.data.removed = WithStatus(resultsFile.data, "removed")

\* a persisted run of two items, one removed and one failed
PersistedRemovedAndFailed ==
  /\ pc = "done"
  /\ Len(items) = 2
  /\ processed = 2
  /\ removed = 1
  /\ added = 0
  /\ skipped = 0
  /\ statsFile.data.removed = 1
  /\ WithStatus(resultsFile.data, "removed") = 1
  /\ WithStatus(resultsFile.data, "failed") = 1

====
